---- MODULE Spec2Model ----
(***************************************************************************)
(* Turn-by-turn chess game: the rules engine (chess-utils, the version     *)
(* with castling, en passant and promotion) and the React components that  *)
(* drive it (ChessBoard.handleSquareClick / handlePromotionConfirm and     *)
(* ChessGame.handleMove / move-application effect / handlePromotion /      *)
(* resetGame).                                                             *)
(***************************************************************************)
EXTENDS Integers, Sequences, FiniteSets, TLC

VARIABLES
    gameState,            \* ChessGame: {board, currentPlayer, lastMove, enPassantTarget}
    moveHistory,          \* ChessGame: Move[]
    lastMove,             \* ChessGame: {from, to} | null (highlighting)
    capturedPieces,       \* ChessGame: {white: ChessPiece[], black: ChessPiece[]}
    winner,               \* ChessGame: PieceColor | null
    selectedSquare,       \* ChessBoard: Position | null
    promotionPosition,    \* ChessBoard: Position | null (dialog open iff non-null)
    promotionSelectValue, \* ChessBoard: PieceType chosen in the dialog
    pendingPromotion      \* ChessBoard: the promotion move waiting for Confirm
\* ChessBoard's validMoves is recomputed from selectedSquare and gameState by
\* an effect after every render and is the definition validMoves below.

vars == <<gameState, moveHistory, lastMove, capturedPieces, winner,
          selectedSquare, promotionPosition, promotionSelectValue, pendingPromotion>>

-----------------------------------------------------------------------------
(* Data model *)

\* JavaScript null / undefined for an object-valued slot.  Reading .type of it
\* yields a value different from every piece type; reading .color or .hasMoved
\* of it is an error, as a property read of null is in the source.
Null == [type |-> "null"]

Undefined == "undefined"

\* JavaScript null for a string-valued slot (winner: PieceColor | null)
NullString == "null"

PieceType == {"pawn", "knight", "bishop", "rook", "queen", "king"}

PieceColor == {"white", "black"}

Rows == 0..7

Cols == 0..7

Pos(r, c) == [row |-> r, col |-> c]

Squares == {Pos(r, c) : r \in Rows, c \in Cols}

Piece(t, c, h) == [type |-> t, color |-> c, hasMoved |-> h]

Abs(x) == IF x < 0 THEN -x ELSE x

Opponent(c) == IF c = "white" THEN "black" ELSE "white"

At(board, p) == board[p.row][p.col]

\* newBoard[r][c] = v on a copy of the board
Put(board, r, c, v) == [board EXCEPT ![r][c] = v]

-----------------------------------------------------------------------------
(* Rules engine *)

BackRank == <<"rook", "knight", "bishop", "queen", "king", "bishop", "knight", "rook">>

\* initializeBoard with king and queen on each other's column
initializeBoard_KingOnD ==
    [r \in Rows |-> [c \in Cols |->
        LET swapped == [BackRank EXCEPT ![4] = "king", ![5] = "queen"]
        IN  CASE r = 0 -> Piece(swapped[c + 1], "black", FALSE)
              [] r = 1 -> Piece("pawn", "black", FALSE)
              [] r = 6 -> Piece("pawn", "white", FALSE)
              [] r = 7 -> Piece(swapped[c + 1], "white", FALSE)
              [] OTHER -> Null]]

initializeBoard ==
    [r \in Rows |-> [c \in Cols |->
        CASE r = 0 -> Piece(BackRank[c + 1], "black", FALSE)
          [] r = 1 -> Piece("pawn", "black", FALSE)
          [] r = 6 -> Piece("pawn", "white", FALSE)
          [] r = 7 -> Piece(BackRank[c + 1], "white", FALSE)
          [] OTHER -> Null]]

\* isValidPawnMove without the en passant branch
isValidPawnMove_NoEnPassant(gs, from, to) ==
    LET board == gs.board
        piece == At(board, from)
    IN  IF piece = Null \/ piece.type # "pawn" THEN FALSE
        ELSE
        LET color == piece.color
            direction == IF color = "white" THEN -1 ELSE 1
            startRow == IF color = "white" THEN 6 ELSE 1
        IN  \/ /\ from.col = to.col
               /\ to.row = from.row + direction
               /\ At(board, to) = Null
            \/ /\ from.col = to.col
               /\ from.row = startRow
               /\ to.row = from.row + 2 * direction
               /\ board[from.row + direction][from.col] = Null
               /\ At(board, to) = Null
            \/ /\ Abs(from.col - to.col) = 1
               /\ to.row = from.row + direction
               /\ At(board, to) # Null
               /\ At(board, to).color # color

\* isValidPawnMove whose two-square advance does not look at the square between
isValidPawnMove_JumpOver(gs, from, to) ==
    LET board == gs.board
        enPassantTarget == gs.enPassantTarget
        piece == At(board, from)
    IN  IF piece = Null \/ piece.type # "pawn" THEN FALSE
        ELSE
        LET color == piece.color
            direction == IF color = "white" THEN -1 ELSE 1
            startRow == IF color = "white" THEN 6 ELSE 1
        IN  \/ /\ from.col = to.col
               /\ to.row = from.row + direction
               /\ At(board, to) = Null
            \/ /\ from.col = to.col
               /\ from.row = startRow
               /\ to.row = from.row + 2 * direction
               /\ At(board, to) = Null
            \/ /\ Abs(from.col - to.col) = 1
               /\ to.row = from.row + direction
               /\ At(board, to) # Null
               /\ At(board, to).color # color
            \/ /\ enPassantTarget # Null
               /\ Abs(from.col - to.col) = 1
               /\ to.row = from.row + direction
               /\ to.row = enPassantTarget.row
               /\ to.col = enPassantTarget.col

\* isValidPawnMove that takes row 6 as the start row of both colours
isValidPawnMove_SameStartRow(gs, from, to) ==
    LET board == gs.board
        enPassantTarget == gs.enPassantTarget
        piece == At(board, from)
    IN  IF piece = Null \/ piece.type # "pawn" THEN FALSE
        ELSE
        LET color == piece.color
            direction == IF color = "white" THEN -1 ELSE 1
            startRow == 6
        IN  \/ /\ from.col = to.col
               /\ to.row = from.row + direction
               /\ At(board, to) = Null
            \/ /\ from.col = to.col
               /\ from.row = startRow
               /\ to.row = from.row + 2 * direction
               /\ board[from.row + direction][from.col] = Null
               /\ At(board, to) = Null
            \/ /\ Abs(from.col - to.col) = 1
               /\ to.row = from.row + direction
               /\ At(board, to) # Null
               /\ At(board, to).color # color
            \/ /\ enPassantTarget # Null
               /\ Abs(from.col - to.col) = 1
               /\ to.row = from.row + direction
               /\ to.row = enPassantTarget.row
               /\ to.col = enPassantTarget.col

isValidPawnMove(gs, from, to) ==
    LET board == gs.board
        enPassantTarget == gs.enPassantTarget
        piece == At(board, from)
    IN  IF piece = Null \/ piece.type # "pawn" THEN FALSE
        ELSE
        LET color == piece.color
            direction == IF color = "white" THEN -1 ELSE 1
            startRow == IF color = "white" THEN 6 ELSE 1
        IN  \* forward move (1 square)
            \/ /\ from.col = to.col
               /\ to.row = from.row + direction
               /\ At(board, to) = Null
            \* initial 2-square move
            \/ /\ from.col = to.col
               /\ from.row = startRow
               /\ to.row = from.row + 2 * direction
               /\ board[from.row + direction][from.col] = Null
               /\ At(board, to) = Null
            \* regular capture
            \/ /\ Abs(from.col - to.col) = 1
               /\ to.row = from.row + direction
               /\ At(board, to) # Null
               /\ At(board, to).color # color
            \* en passant capture
            \/ /\ enPassantTarget # Null
               /\ Abs(from.col - to.col) = 1
               /\ to.row = from.row + direction
               /\ to.row = enPassantTarget.row
               /\ to.col = enPassantTarget.col

\* isValidKnightMove that takes the column difference without Math.abs in one case
isValidKnightMove_Lopsided(from, to) ==
    LET rowDiff == Abs(from.row - to.row)
        colDiff == Abs(from.col - to.col)
    IN  (rowDiff = 2 /\ to.col - from.col = 1) \/ (rowDiff = 1 /\ colDiff = 2)

isValidKnightMove(from, to) ==
    LET rowDiff == Abs(from.row - to.row)
        colDiff == Abs(from.col - to.col)
    IN  (rowDiff = 2 /\ colDiff = 1) \/ (rowDiff = 1 /\ colDiff = 2)

\* the while loop of isValidBishopMove: TRUE iff no occupied square is met
\* before currentRow reaches to.row or currentCol reaches to.col
RECURSIVE BishopScan(_, _, _, _, _, _)
BishopScan(board, currentRow, currentCol, rowDirection, colDirection, to) ==
    IF currentRow # to.row /\ currentCol # to.col
    THEN IF board[currentRow][currentCol] # Null THEN FALSE
         ELSE BishopScan(board, currentRow + rowDirection, currentCol + colDirection,
                         rowDirection, colDirection, to)
    ELSE TRUE

\* the squares the while loop of isValidBishopMove reads
RECURSIVE BishopInspected(_, _, _, _, _, _)
BishopInspected(board, currentRow, currentCol, rowDirection, colDirection, to) ==
    IF currentRow # to.row /\ currentCol # to.col
    THEN {Pos(currentRow, currentCol)}
         \cup (IF board[currentRow][currentCol] # Null THEN {}
               ELSE BishopInspected(board, currentRow + rowDirection,
                                    currentCol + colDirection,
                                    rowDirection, colDirection, to))
    ELSE {}

\* isValidBishopMove that does not scan the path
isValidBishopMove_NoScan(board, from, to) ==
    Abs(from.row - to.row) = Abs(from.col - to.col)

isValidBishopMove(board, from, to) ==
    LET rowDiff == Abs(from.row - to.row)
        colDiff == Abs(from.col - to.col)
        rowDirection == IF from.row < to.row THEN 1 ELSE -1
        colDirection == IF from.col < to.col THEN 1 ELSE -1
    IN  IF rowDiff # colDiff THEN FALSE
        ELSE BishopScan(board, from.row + rowDirection, from.col + colDirection,
                        rowDirection, colDirection, to)

\* the horizontal while loop of isValidRookMove
RECURSIVE RookScanCol(_, _, _, _, _)
RookScanCol(board, row, currentCol, colDirection, toCol) ==
    IF currentCol # toCol
    THEN IF board[row][currentCol] # Null THEN FALSE
         ELSE RookScanCol(board, row, currentCol + colDirection, colDirection, toCol)
    ELSE TRUE

\* the vertical while loop of isValidRookMove
RECURSIVE RookScanRow(_, _, _, _, _)
RookScanRow(board, currentRow, col, rowDirection, toRow) ==
    IF currentRow # toRow
    THEN IF board[currentRow][col] # Null THEN FALSE
         ELSE RookScanRow(board, currentRow + rowDirection, col, rowDirection, toRow)
    ELSE TRUE

\* isValidRookMove that does not scan the path
isValidRookMove_NoScan(board, from, to) ==
    ~(from.row # to.row /\ from.col # to.col)

isValidRookMove(board, from, to) ==
    IF from.row # to.row /\ from.col # to.col THEN FALSE
    ELSE IF from.row = to.row
         THEN LET colDirection == IF from.col < to.col THEN 1 ELSE -1
              IN  RookScanCol(board, from.row, from.col + colDirection, colDirection, to.col)
         ELSE LET rowDirection == IF from.row < to.row THEN 1 ELSE -1
              IN  RookScanRow(board, from.row + rowDirection, from.col, rowDirection, to.row)

isValidQueenMove(board, from, to) ==
    isValidBishopMove(board, from, to) \/ isValidRookMove(board, from, to)

\* CastlingRookOk that does not look at the rook's hasMoved
CastlingRookOk_IgnoreMoved(rook, piece) ==
    /\ rook # Null
    /\ rook.type = "rook"
    /\ rook.color = piece.color

\* the castling branch's test of the partner rook:
\* !(!rook || rook.type !== 'rook' || rook.color !== piece.color || rook.hasMoved)
CastlingRookOk(rook, piece) ==
    /\ rook # Null
    /\ rook.type = "rook"
    /\ rook.color = piece.color
    /\ ~rook.hasMoved

isValidKingMove(gs, from, to) ==
    LET board == gs.board
        piece == At(board, from)
        rowDiff == Abs(from.row - to.row)
        colDiff == Abs(from.col - to.col)
        kingsideCol == 6
        queensideCol == 2
    IN  IF piece = Null \/ piece.type # "king" THEN FALSE
        ELSE IF rowDiff <= 1 /\ colDiff <= 1 THEN TRUE
        ELSE IF rowDiff = 0 /\ colDiff = 2
        THEN IF piece.hasMoved THEN FALSE
             ELSE IF to.col = kingsideCol
             THEN /\ CastlingRookOk(board[from.row][7], piece)
                  /\ \A col \in (from.col + 1)..(7 - 1) : board[from.row][col] = Null
             ELSE IF to.col = queensideCol
             THEN /\ CastlingRookOk(board[from.row][0], piece)
                  /\ \A col \in (0 + 1)..(from.col - 1) : board[from.row][col] = Null
             ELSE FALSE
        ELSE FALSE

\* isValidMove without the test of the destination's colour
isValidMove_AllowOwnTarget(gs, from, to) ==
    LET board == gs.board
        piece == At(board, from)
    IN  IF piece = Null THEN FALSE
        ELSE IF piece.color # gs.currentPlayer THEN FALSE
        ELSE CASE piece.type = "pawn"   -> isValidPawnMove(gs, from, to)
               [] piece.type = "knight" -> isValidKnightMove(from, to)
               [] piece.type = "bishop" -> isValidBishopMove(board, from, to)
               [] piece.type = "rook"   -> isValidRookMove(board, from, to)
               [] piece.type = "queen"  -> isValidQueenMove(board, from, to)
               [] piece.type = "king"   -> isValidKingMove(gs, from, to)
               [] OTHER -> FALSE

isValidMove(gs, from, to) ==
    LET board == gs.board
        currentPlayer == gs.currentPlayer
        piece == At(board, from)
        targetPiece == At(board, to)
    IN  IF piece = Null THEN FALSE
        ELSE IF piece.color # currentPlayer THEN FALSE
        ELSE IF targetPiece # Null /\ targetPiece.color = currentPlayer THEN FALSE
        ELSE CASE piece.type = "pawn"   -> isValidPawnMove(gs, from, to)
               [] piece.type = "knight" -> isValidKnightMove(from, to)
               [] piece.type = "bishop" -> isValidBishopMove(board, from, to)
               [] piece.type = "rook"   -> isValidRookMove(board, from, to)
               [] piece.type = "queen"  -> isValidQueenMove(board, from, to)
               [] piece.type = "king"   -> isValidKingMove(gs, from, to)
               [] OTHER -> FALSE

\* How a call ends: it returns `value` after `steps` loop iterations, it never
\* leaves a loop ("loops"), or it throws a TypeError reading a row that does
\* not exist ("throws").  board[r] is undefined for r outside 0..7, and
\* board[r][c] is undefined, hence falsy, for c outside 0..7.
Returns(value, steps, scans) ==
    [ends |-> "returns", value |-> value, steps |-> steps, scans |-> scans]

\* a call that never returns
Loops(scans) == [ends |-> "loops", value |-> FALSE, steps |-> 0, scans |-> scans]

\* a call that throws
Throws(scans) == [ends |-> "throws", value |-> FALSE, steps |-> 0, scans |-> scans]

\* the while loop of isValidBishopMove, iteration by iteration
RECURSIVE BishopLoop(_, _, _, _, _, _, _)
BishopLoop(board, currentRow, currentCol, rowDirection, colDirection, to, steps) ==
    IF currentRow # to.row /\ currentCol # to.col
    THEN IF currentRow \notin Rows THEN Throws({"bishop"})
         ELSE IF currentCol \in Cols /\ board[currentRow][currentCol] # Null
         THEN Returns(FALSE, steps + 1, {"bishop"})
         ELSE BishopLoop(board, currentRow + rowDirection, currentCol + colDirection,
                         rowDirection, colDirection, to, steps + 1)
    ELSE Returns(TRUE, steps, {"bishop"})

\* a call of isValidBishopMove
isValidBishopMoveRun(board, from, to) ==
    LET rowDiff == Abs(from.row - to.row)
        colDiff == Abs(from.col - to.col)
        rowDirection == IF from.row < to.row THEN 1 ELSE -1
        colDirection == IF from.col < to.col THEN 1 ELSE -1
    IN  IF rowDiff # colDiff THEN Returns(FALSE, 0, {})
        ELSE BishopLoop(board, from.row + rowDirection, from.col + colDirection,
                        rowDirection, colDirection, to, 0)

\* the horizontal while loop of isValidRookMove, iteration by iteration: once
\* currentCol has left 0..7 every further read is undefined and toCol lies behind
RECURSIVE RookColLoop(_, _, _, _, _, _)
RookColLoop(board, row, currentCol, colDirection, toCol, steps) ==
    IF currentCol # toCol
    THEN IF currentCol \notin Cols THEN Loops({"rook"})
         ELSE IF board[row][currentCol] # Null THEN Returns(FALSE, steps + 1, {"rook"})
         ELSE RookColLoop(board, row, currentCol + colDirection, colDirection, toCol,
                          steps + 1)
    ELSE Returns(TRUE, steps, {"rook"})

\* the vertical while loop of isValidRookMove, iteration by iteration
RECURSIVE RookRowLoop(_, _, _, _, _, _)
RookRowLoop(board, currentRow, col, rowDirection, toRow, steps) ==
    IF currentRow # toRow
    THEN IF currentRow \notin Rows THEN Throws({"rook"})
         ELSE IF board[currentRow][col] # Null THEN Returns(FALSE, steps + 1, {"rook"})
         ELSE RookRowLoop(board, currentRow + rowDirection, col, rowDirection, toRow,
                          steps + 1)
    ELSE Returns(TRUE, steps, {"rook"})

\* a call of isValidRookMove
isValidRookMoveRun(board, from, to) ==
    IF from.row # to.row /\ from.col # to.col THEN Returns(FALSE, 0, {})
    ELSE IF from.row = to.row
         THEN LET colDirection == IF from.col < to.col THEN 1 ELSE -1
              IN  RookColLoop(board, from.row, from.col + colDirection, colDirection,
                              to.col, 0)
         ELSE LET rowDirection == IF from.row < to.row THEN 1 ELSE -1
              IN  RookRowLoop(board, from.row + rowDirection, from.col, rowDirection,
                              to.row, 0)

\* a call of isValidQueenMove: the rook test runs only when the bishop test
\* has returned false
isValidQueenMoveRun(board, from, to) ==
    LET b == isValidBishopMoveRun(board, from, to)
        r == isValidRookMoveRun(board, from, to)
    IN  IF b.ends # "returns" \/ b.value THEN b
        ELSE [r EXCEPT !.steps = @ + b.steps, !.scans = @ \cup b.scans]

\* isValidMoveRun that does not test the destination's colour
isValidMoveRun_AllowOwnTarget(gs, from, to) ==
    LET board == gs.board
        piece == At(board, from)
    IN  IF piece = Null THEN Returns(FALSE, 0, {})
        ELSE IF piece.color # gs.currentPlayer THEN Returns(FALSE, 0, {})
        ELSE CASE piece.type = "pawn"   -> Returns(isValidPawnMove(gs, from, to), 0, {})
               [] piece.type = "knight" -> Returns(isValidKnightMove(from, to), 0, {})
               [] piece.type = "bishop" -> isValidBishopMoveRun(board, from, to)
               [] piece.type = "rook"   -> isValidRookMoveRun(board, from, to)
               [] piece.type = "queen"  -> isValidQueenMoveRun(board, from, to)
               [] piece.type = "king"   -> Returns(isValidKingMove(gs, from, to), 0, {})
               [] OTHER -> Returns(FALSE, 0, {})

\* a call of isValidMove: the pawn, knight and king tests have no while loop
isValidMoveRun(gs, from, to) ==
    LET board == gs.board
        currentPlayer == gs.currentPlayer
        piece == At(board, from)
        targetPiece == At(board, to)
    IN  IF piece = Null THEN Returns(FALSE, 0, {})
        ELSE IF piece.color # currentPlayer THEN Returns(FALSE, 0, {})
        ELSE IF targetPiece # Null /\ targetPiece.color = currentPlayer
        THEN Returns(FALSE, 0, {})
        ELSE CASE piece.type = "pawn"   -> Returns(isValidPawnMove(gs, from, to), 0, {})
               [] piece.type = "knight" -> Returns(isValidKnightMove(from, to), 0, {})
               [] piece.type = "bishop" -> isValidBishopMoveRun(board, from, to)
               [] piece.type = "rook"   -> isValidRookMoveRun(board, from, to)
               [] piece.type = "queen"  -> isValidQueenMoveRun(board, from, to)
               [] piece.type = "king"   -> Returns(isValidKingMove(gs, from, to), 0, {})
               [] OTHER -> Returns(FALSE, 0, {})

\* The index pairs of the board a call reads or writes, in range or not.  A
\* scan that has read off the board is followed no further.

\* the reads of the while loop of isValidBishopMove
RECURSIVE BishopReads(_, _, _, _, _, _)
BishopReads(board, currentRow, currentCol, rowDirection, colDirection, to) ==
    IF currentRow # to.row /\ currentCol # to.col
    THEN {Pos(currentRow, currentCol)}
         \cup (IF Pos(currentRow, currentCol) \notin Squares THEN {}
               ELSE IF board[currentRow][currentCol] # Null THEN {}
               ELSE BishopReads(board, currentRow + rowDirection, currentCol + colDirection,
                                rowDirection, colDirection, to))
    ELSE {}

\* the reads of isValidBishopMove
isValidBishopMoveReads(board, from, to) ==
    LET rowDirection == IF from.row < to.row THEN 1 ELSE -1
        colDirection == IF from.col < to.col THEN 1 ELSE -1
    IN  IF Abs(from.row - to.row) # Abs(from.col - to.col) THEN {}
        ELSE BishopReads(board, from.row + rowDirection, from.col + colDirection,
                         rowDirection, colDirection, to)

\* the reads of the horizontal while loop of isValidRookMove
RECURSIVE RookColReads(_, _, _, _, _)
RookColReads(board, row, currentCol, colDirection, toCol) ==
    IF currentCol # toCol
    THEN {Pos(row, currentCol)}
         \cup (IF currentCol \notin Cols THEN {}
               ELSE IF board[row][currentCol] # Null THEN {}
               ELSE RookColReads(board, row, currentCol + colDirection, colDirection, toCol))
    ELSE {}

\* the reads of the vertical while loop of isValidRookMove
RECURSIVE RookRowReads(_, _, _, _, _)
RookRowReads(board, currentRow, col, rowDirection, toRow) ==
    IF currentRow # toRow
    THEN {Pos(currentRow, col)}
         \cup (IF currentRow \notin Rows THEN {}
               ELSE IF board[currentRow][col] # Null THEN {}
               ELSE RookRowReads(board, currentRow + rowDirection, col, rowDirection, toRow))
    ELSE {}

\* the reads of isValidRookMove
isValidRookMoveReads(board, from, to) ==
    IF from.row # to.row /\ from.col # to.col THEN {}
    ELSE IF from.row = to.row
         THEN RookColReads(board, from.row,
                           from.col + (IF from.col < to.col THEN 1 ELSE -1),
                           IF from.col < to.col THEN 1 ELSE -1, to.col)
         ELSE RookRowReads(board, from.row + (IF from.row < to.row THEN 1 ELSE -1),
                           from.col, IF from.row < to.row THEN 1 ELSE -1, to.row)

\* the reads of isValidQueenMove: the rook test runs when the bishop test fails
isValidQueenMoveReads(board, from, to) ==
    LET b == isValidBishopMoveReads(board, from, to)
    IN  IF b \subseteq Squares /\ ~isValidBishopMove(board, from, to)
        THEN b \cup isValidRookMoveReads(board, from, to)
        ELSE b

\* the reads of isValidPawnMove, condition by condition with && short-circuit
isValidPawnMoveReads(gs, from, to) ==
    LET board == gs.board
        piece == At(board, from)
        direction == IF piece.color = "white" THEN -1 ELSE 1
        startRow == IF piece.color = "white" THEN 6 ELSE 1
        oneStep == to.row = from.row + direction
        twoStep == from.col = to.col /\ from.row = startRow
                      /\ to.row = from.row + 2 * direction
        between == Pos(from.row + direction, from.col)
        forward == from.col = to.col /\ oneStep
        capture == Abs(from.col - to.col) = 1 /\ oneStep
    IN  {from}
        \cup (IF forward \/ capture THEN {to} ELSE {})
        \cup (IF twoStep
              THEN {between}
                   \cup (IF between \in Squares /\ At(board, between) = Null
                         THEN {to} ELSE {})
              ELSE {})

\* the reads of the castling branch of isValidKingMove towards the rook on rookCol
CastlingReads(board, from, rookCol, piece) ==
    LET path == IF rookCol = 7 THEN (from.col + 1)..(7 - 1) ELSE (0 + 1)..(from.col - 1)
        before(col) == IF rookCol = 7 THEN (from.col + 1)..(col - 1)
                       ELSE (col + 1)..(from.col - 1)
    IN  {Pos(from.row, rookCol)}
        \cup (IF CastlingRookOk(board[from.row][rookCol], piece)
              THEN {Pos(from.row, col) : col \in
                       {col \in path : \A k \in before(col) : board[from.row][k] = Null}}
              ELSE {})

\* the reads of isValidKingMove
isValidKingMoveReads(gs, from, to) ==
    LET board == gs.board
        piece == At(board, from)
        rowDiff == Abs(from.row - to.row)
        colDiff == Abs(from.col - to.col)
    IN  {from}
        \cup (IF rowDiff <= 1 /\ colDiff <= 1 THEN {}
              ELSE IF rowDiff = 0 /\ colDiff = 2 /\ ~piece.hasMoved
              THEN IF to.col = 6 THEN CastlingReads(board, from, 7, piece)
                   ELSE IF to.col = 2 THEN CastlingReads(board, from, 0, piece)
                   ELSE {}
              ELSE {})

\* isValidMoveReads that does not stop at a destination of the mover's colour
isValidMoveReads_AllowOwnTarget(gs, from, to) ==
    LET board == gs.board
        piece == At(board, from)
    IN  {from}
        \cup (IF piece = Null \/ piece.color # gs.currentPlayer THEN {}
              ELSE {to}
                   \cup (CASE piece.type = "pawn"   -> isValidPawnMoveReads(gs, from, to)
                           [] piece.type = "knight" -> {}
                           [] piece.type = "bishop" -> isValidBishopMoveReads(board, from, to)
                           [] piece.type = "rook"   -> isValidRookMoveReads(board, from, to)
                           [] piece.type = "queen"  -> isValidQueenMoveReads(board, from, to)
                           [] piece.type = "king"   -> isValidKingMoveReads(gs, from, to)
                           [] OTHER -> {}))

\* the reads of isValidMove
isValidMoveReads(gs, from, to) ==
    LET board == gs.board
        piece == At(board, from)
        targetPiece == At(board, to)
    IN  {from}
        \cup (IF piece = Null \/ piece.color # gs.currentPlayer THEN {}
              ELSE {to}
                   \cup (IF targetPiece # Null /\ targetPiece.color = gs.currentPlayer
                         THEN {}
                         ELSE CASE piece.type = "pawn"   -> isValidPawnMoveReads(gs, from, to)
                                [] piece.type = "knight" -> {}
                                [] piece.type = "bishop" -> isValidBishopMoveReads(board, from, to)
                                [] piece.type = "rook"   -> isValidRookMoveReads(board, from, to)
                                [] piece.type = "queen"  -> isValidQueenMoveReads(board, from, to)
                                [] piece.type = "king"   -> isValidKingMoveReads(gs, from, to)
                                [] OTHER -> {}))

\* row-major enumeration of the 64 squares, as the two nested loops produce it
RowMajor == [i \in 1..64 |-> Pos((i - 1) \div 8, (i - 1) % 8)]

\* getValidMoves with the two loops exchanged: columns outside, rows inside
getValidMoves_ColumnFirst(gs, position) ==
    SelectSeq([i \in 1..64 |-> Pos((i - 1) % 8, (i - 1) \div 8)],
              LAMBDA to : isValidMove(gs, position, to))

getValidMoves(gs, position) ==
    SelectSeq(RowMajor, LAMBDA to : isValidMove(gs, position, to))

\* isPawnPromotion that knows white's far rank only
isPawnPromotion_WhiteOnly(position, piece) ==
    IF piece.type # "pawn" THEN FALSE
    ELSE piece.color = "white" /\ position.row = 0

isPawnPromotion(position, piece) ==
    IF piece.type # "pawn" THEN FALSE
    ELSE \/ (piece.color = "white" /\ position.row = 0)
         \/ (piece.color = "black" /\ position.row = 7)

isCastlingMove(from, to, piece) ==
    IF piece.type # "king" THEN [isCastling |-> FALSE, side |-> Undefined]
    ELSE IF Abs(from.col - to.col) = 2 /\ from.row = to.row
         THEN [isCastling |-> TRUE,
               side |-> IF to.col > from.col THEN "kingside" ELSE "queenside"]
         ELSE [isCastling |-> FALSE, side |-> Undefined]

isEnPassantMove(from, to, piece, enPassantTarget) ==
    IF enPassantTarget = Null \/ piece.type # "pawn" THEN FALSE
    ELSE to.row = enPassantTarget.row /\ to.col = enPassantTarget.col

\* Moved that leaves hasMoved as it was
Moved_Keep(p) == p

\* { ...p, hasMoved: true }
Moved(p) == [p EXCEPT !.hasMoved = TRUE]

\* CastleRook that puts the rook on the file of the other side
CastleRook_WrongFile(board, row, castlingSide) ==
    IF castlingSide = "kingside"
    THEN Put(Put(board, row, 3, Moved(board[row][7])), row, 7, Null)
    ELSE Put(Put(board, row, 5, Moved(board[row][0])), row, 0, Null)

\* CastleRook that relocates the rook without setting its hasMoved
CastleRook_KeepFlag(board, row, castlingSide) ==
    IF castlingSide = "kingside"
    THEN Put(Put(board, row, 5, board[row][7]), row, 7, Null)
    ELSE Put(Put(board, row, 3, board[row][0]), row, 0, Null)

\* applyMove's rook relocation of a castling move
CastleRook(board, row, castlingSide) ==
    IF castlingSide = "kingside"
    THEN Put(Put(board, row, 5, Moved(board[row][7])), row, 7, Null)
    ELSE Put(Put(board, row, 3, Moved(board[row][0])), row, 0, Null)

\* NewEnPassantTarget that keeps the previous target when no pawn advanced two rows
NewEnPassantTarget_Keep(gs, piece, from, to) ==
    IF piece.type = "pawn" /\ Abs(from.row - to.row) = 2
    THEN Pos(IF piece.color = "white" THEN from.row - 1 ELSE from.row + 1, from.col)
    ELSE gs.enPassantTarget

\* NewEnPassantTarget that names the landing square instead of the skipped one
NewEnPassantTarget_Landing(gs, piece, from, to) ==
    IF piece.type = "pawn" /\ Abs(from.row - to.row) = 2
    THEN Pos(to.row, from.col)
    ELSE Null

\* NewEnPassantTarget that records white's two-square advances only
NewEnPassantTarget_WhiteOnly(gs, piece, from, to) ==
    IF piece.type = "pawn" /\ piece.color = "white" /\ Abs(from.row - to.row) = 2
    THEN Pos(from.row - 1, from.col)
    ELSE Null

\* applyMove's new en passant target
NewEnPassantTarget(gs, piece, from, to) ==
    IF piece.type = "pawn" /\ Abs(from.row - to.row) = 2
    THEN Pos(IF piece.color = "white" THEN from.row - 1 ELSE from.row + 1, from.col)
    ELSE Null

\* CaptureRow that removes from the landing row
CaptureRow_Landing(piece, to) == to.row

\* CaptureRow that removes from the row ahead of the landing square
CaptureRow_Ahead(piece, to) == IF piece.color = "white" THEN to.row - 1 ELSE to.row + 1

\* applyMove's row of the pawn an en passant capture removes
CaptureRow(piece, to) == IF piece.color = "white" THEN to.row + 1 ELSE to.row - 1

\* ReportedCapture that reports only what stood on `to`
ReportedCapture_TargetOnly(capturedEnPassantPiece, capturedPiece) == capturedPiece

\* applyMove's reported capture: capturedEnPassantPiece || capturedPiece
ReportedCapture(capturedEnPassantPiece, capturedPiece) ==
    IF capturedEnPassantPiece # Null THEN capturedEnPassantPiece ELSE capturedPiece

applyMove(gs, from, to) ==
    LET board == gs.board
        piece == At(board, from)
        capturedPiece == At(board, to)
        isPromotion == isPawnPromotion(to, piece)
        castling == isCastlingMove(from, to, piece)
        isEnPassant == isEnPassantMove(from, to, piece, gs.enPassantTarget)
        b1 == Put(Put(board, to.row, to.col, Moved(piece)), from.row, from.col, Null)
        b2 == IF castling.isCastling /\ castling.side # Undefined
              THEN CastleRook(b1, from.row, castling.side)
              ELSE b1
        captureRow == CaptureRow(piece, to)
        capturedEnPassantPiece == IF isEnPassant THEN b2[captureRow][to.col] ELSE Null
        b3 == IF isEnPassant THEN Put(b2, captureRow, to.col, Null) ELSE b2
    IN  [newBoard |-> b3,
         capturedPiece |-> ReportedCapture(capturedEnPassantPiece, capturedPiece),
         isPromotion |-> isPromotion,
         isCastling |-> castling.isCastling,
         castlingSide |-> castling.side,
         isEnPassant |-> isEnPassant,
         enPassantTarget |-> NewEnPassantTarget(gs, piece, from, to)]

\* the squares of board and newBoard that applyMove reads or writes
applyMoveAccesses(gs, from, to) ==
    LET piece == At(gs.board, from)
        castling == isCastlingMove(from, to, piece)
        isEnPassant == isEnPassantMove(from, to, piece, gs.enPassantTarget)
    IN  {from, to}
        \cup (IF castling.isCastling /\ castling.side # Undefined
              THEN IF castling.side = "kingside"
                   THEN {Pos(from.row, 7), Pos(from.row, 5)}
                   ELSE {Pos(from.row, 0), Pos(from.row, 3)}
              ELSE {})
        \cup (IF isEnPassant THEN {Pos(CaptureRow(piece, to), to.col)} ELSE {})

\* promotePawn that keeps the pawn's hasMoved
promotePawn_KeepMoved(board, position, newType) ==
    LET piece == At(board, position)
    IN  IF piece # Null /\ piece.type = "pawn"
        THEN Put(board, position.row, position.col, Piece(newType, piece.color, piece.hasMoved))
        ELSE board

promotePawn(board, position, newType) ==
    LET piece == At(board, position)
    IN  IF piece # Null /\ piece.type = "pawn"
        THEN Put(board, position.row, position.col, Piece(newType, piece.color, TRUE))
        ELSE board

\* a two-character algebraic square such as "e4" is the pair <<"e", "4">>
CharCode == "a" :> 97 @@ "b" :> 98 @@ "c" :> 99 @@ "d" :> 100
            @@ "e" :> 101 @@ "f" :> 102 @@ "g" :> 103 @@ "h" :> 104

FromCharCode == [n \in 97..104 |-> CHOOSE ch \in DOMAIN CharCode : CharCode[ch] = n]

ParseInt == "1" :> 1 @@ "2" :> 2 @@ "3" :> 3 @@ "4" :> 4
            @@ "5" :> 5 @@ "6" :> 6 @@ "7" :> 7 @@ "8" :> 8

NumberToString == [n \in 1..8 |-> CHOOSE d \in DOMAIN ParseInt : ParseInt[d] = n]

\* notationToPosition that counts ranks from the top: row = rank - 1
notationToPosition_RankAsRow(notation) ==
    LET col == CharCode[notation[1]] - CharCode["a"]
        row == ParseInt[notation[2]] - 1
    IN  Pos(row, col)

notationToPosition(notation) ==
    LET col == CharCode[notation[1]] - CharCode["a"]
        row == 8 - ParseInt[notation[2]]
    IN  Pos(row, col)

\* positionToNotation that prints the row index as the rank
positionToNotation_RowAsRank(position) ==
    LET col == FromCharCode[CharCode["a"] + position.col]
        row == position.row + 1
    IN  <<col, NumberToString[row]>>

positionToNotation(position) ==
    LET col == FromCharCode[CharCode["a"] + position.col]
        row == 8 - position.row
    IN  <<col, NumberToString[row]>>

-----------------------------------------------------------------------------
(* The engine's arrays and objects, by reference *)

\* In memory a ChessBoard is an array of eight row arrays whose cells are null
\* or refer to piece objects, and a GameState is an object referring to its
\* board.  A heap maps references to arrays and to objects; `fresh` numbers
\* the next allocation.
Ref(kind, n) == <<kind, n>>

NullRef == Ref("null", 0)

StateRef == Ref("state", 0)

\* the heap holding the game state gs as a caller passes it to the engine
HeapOf(gs) ==
    [arrays |->
        [a \in {Ref("board", 0)} \cup {Ref("row", r) : r \in Rows} |->
            IF a[1] = "board"
            THEN [r \in Rows |-> Ref("row", r)]
            ELSE [c \in Cols |-> IF gs.board[a[2]][c] = Null THEN NullRef
                                 ELSE Ref("piece", 8 * a[2] + c)]],
     objects |->
        [o \in {StateRef} \cup {Ref("piece", 8 * q.row + q.col) :
                                   q \in {q \in Squares : At(gs.board, q) # Null}} |->
            IF o = StateRef
            THEN [board |-> Ref("board", 0), currentPlayer |-> gs.currentPlayer,
                  enPassantTarget |-> gs.enPassantTarget]
            ELSE gs.board[o[2] \div 8][o[2] % 8]],
     fresh |-> 0]

\* board[r][c], a reference
Cell(heap, board, r, c) == heap.arrays[heap.arrays[board][r]][c]

\* the piece (or null) a cell reference stands for
Deref(heap, ref) == IF ref = NullRef THEN Null ELSE heap.objects[ref]

\* the board a reference stands for, as the value the rules read
ReadBoard(heap, board) ==
    [r \in Rows |-> [c \in Cols |-> Deref(heap, Cell(heap, board, r, c))]]

\* the game state a reference stands for
ReadState(heap, state) ==
    [board |-> ReadBoard(heap, heap.objects[state].board),
     currentPlayer |-> heap.objects[state].currentPlayer,
     enPassantTarget |-> heap.objects[state].enPassantTarget]

\* { ...value }: a new object
AllocObject(heap, value) ==
    [ref |-> Ref("new", heap.fresh),
     heap |-> [heap EXCEPT !.objects = (Ref("new", heap.fresh) :> value) @@ @,
                           !.fresh = @ + 1]]

\* board[r][c] = ref
SetCell(heap, board, r, c, ref) ==
    [heap EXCEPT !.arrays[heap.arrays[board][r]][c] = ref]

\* CloneBoard that copies the outer array only: [...board]
CloneBoard_SharedRows(heap, board) ==
    [ref |-> Ref("new", heap.fresh),
     heap |-> [heap EXCEPT !.arrays = (Ref("new", heap.fresh) :> heap.arrays[board]) @@ @,
                           !.fresh = @ + 1]]

\* board.map(row => [...row]): a new outer array of eight new row arrays
\* whose cells refer to the same piece objects
CloneBoard(heap, board) ==
    LET outer == Ref("new", heap.fresh + 8)
        added == [a \in {Ref("new", heap.fresh + r) : r \in Rows} \cup {outer} |->
                     IF a = outer
                     THEN [r \in Rows |-> Ref("new", heap.fresh + r)]
                     ELSE heap.arrays[heap.arrays[board][a[2] - heap.fresh]]]
    IN  [ref |-> outer,
         heap |-> [heap EXCEPT !.arrays = added @@ @, !.fresh = @ + 9]]

\* applyMove, statement by statement, on the heap; `state` refers to the
\* GameState passed in.  Returns the heap after the call and the references
\* the call returns.
applyMoveInMemory(heap, state, from, to) ==
    LET board == heap.objects[state].board
        clone == CloneBoard(heap, board)
        newBoard == clone.ref
        pieceObj == AllocObject(clone.heap,
                                clone.heap.objects[Cell(clone.heap, newBoard, from.row, from.col)])
        piece == pieceObj.heap.objects[pieceObj.ref]
        target == Cell(pieceObj.heap, newBoard, to.row, to.col)
        capturedObj == IF target # NullRef
                       THEN AllocObject(pieceObj.heap, pieceObj.heap.objects[target])
                       ELSE [ref |-> NullRef, heap |-> pieceObj.heap]
        castling == isCastlingMove(from, to, piece)
        isEnPassant == isEnPassantMove(from, to, piece, heap.objects[state].enPassantTarget)
        movedObj == AllocObject(capturedObj.heap, Moved(piece))
        h1 == SetCell(SetCell(movedObj.heap, newBoard, to.row, to.col, movedObj.ref),
                      newBoard, from.row, from.col, NullRef)
        rookFromCol == IF castling.side = "kingside" THEN 7 ELSE 0
        rookToCol == IF castling.side = "kingside" THEN 5 ELSE 3
        h2 == IF castling.isCastling /\ castling.side # Undefined
              THEN LET rookObj == AllocObject(h1, Moved(h1.objects[Cell(h1, newBoard,
                                                                        from.row, rookFromCol)]))
                   IN  SetCell(SetCell(rookObj.heap, newBoard, from.row, rookToCol, rookObj.ref),
                               newBoard, from.row, rookFromCol, NullRef)
              ELSE h1
        captureRow == CaptureRow(piece, to)
        capturedEnPassantPiece == IF isEnPassant THEN Cell(h2, newBoard, captureRow, to.col)
                                  ELSE NullRef
        h3 == IF isEnPassant THEN SetCell(h2, newBoard, captureRow, to.col, NullRef) ELSE h2
    IN  [heap |-> h3,
         newBoard |-> newBoard,
         capturedPiece |-> IF capturedEnPassantPiece # NullRef THEN capturedEnPassantPiece
                           ELSE capturedObj.ref]

\* piece.hasMoved = true: a write to the object the reference names
SetHasMoved(heap, ref) == [heap EXCEPT !.objects[ref].hasMoved = TRUE]

\* applyMove(board, from, to) of lib/chess-utils.ts, statement by statement,
\* on the heap: the rows are copied, the piece objects are not
chessUtilsApplyMoveInMemory(heap, board, from, to) ==
    LET clone == CloneBoard(heap, board)
        newBoard == clone.ref
        piece == Cell(clone.heap, newBoard, from.row, from.col)
        capturedPiece == Cell(clone.heap, newBoard, to.row, to.col)
        h1 == SetCell(SetCell(clone.heap, newBoard, to.row, to.col, piece),
                      newBoard, from.row, from.col, NullRef)
        h2 == IF piece # NullRef THEN SetHasMoved(h1, piece) ELSE h1
    IN  [heap |-> h2, newBoard |-> newBoard, capturedPiece |-> capturedPiece]

\* promotePawn, statement by statement, on the heap
promotePawnInMemory(heap, board, position, newType) ==
    LET clone == CloneBoard(heap, board)
        newBoard == clone.ref
        piece == Cell(clone.heap, newBoard, position.row, position.col)
    IN  IF piece # NullRef /\ clone.heap.objects[piece].type = "pawn"
        THEN LET promoted == AllocObject(clone.heap,
                                         Piece(newType, clone.heap.objects[piece].color, TRUE))
             IN  [heap |-> SetCell(promoted.heap, newBoard, position.row, position.col,
                                   promoted.ref),
                  newBoard |-> newBoard]
        ELSE [heap |-> clone.heap, newBoard |-> newBoard]

-----------------------------------------------------------------------------
(* The games explored *)

\* Every game explored starts from the initial position, plays accepted moves
\* only, and is a prefix, of at most MaxPly plies, of one of the Lines below.
\* Clicks that make no move (selecting, deselecting, rejected moves, the
\* dialog, New Game) are not restricted.
MaxPly == 11

Ply(f1, r1, f2, r2) ==
    [from |-> notationToPosition(<<f1, r1>>), to |-> notationToPosition(<<f2, r2>>)]

\* 1.e4 a6 2.e5 d5 3.exd6 e.p. cxd6
LineEnPassantWhite ==
    << Ply("e","2","e","4"), Ply("a","7","a","6"), Ply("e","4","e","5"),
       Ply("d","7","d","5"), Ply("e","5","d","6"), Ply("c","7","d","6") >>

\* 1.e4 a6 2.e5 f5 3.exf6 e.p. gxf6
LineEnPassantRight ==
    << Ply("e","2","e","4"), Ply("a","7","a","6"), Ply("e","4","e","5"),
       Ply("f","7","f","5"), Ply("e","5","f","6"), Ply("g","7","f","6") >>

\* 1.e4 a6 2.e5 d5 3.h3 h6 4.a3: the capture on d6 is declined
LineEnPassantDeclined ==
    << Ply("e","2","e","4"), Ply("a","7","a","6"), Ply("e","4","e","5"),
       Ply("d","7","d","5"), Ply("h","2","h","3"), Ply("h","7","h","6"),
       Ply("a","2","a","3") >>

\* 1.a3 e5 2.a4 e4 3.d4 exd3 e.p. 4.cxd3
LineEnPassantBlack ==
    << Ply("a","2","a","3"), Ply("e","7","e","5"), Ply("a","3","a","4"),
       Ply("e","5","e","4"), Ply("d","2","d","4"), Ply("e","4","d","3"),
       Ply("c","2","d","3") >>

\* 1.e4 e5 2.Nf3 Nc6 3.Bc4 Bc5 4.O-O Nf6 5.d3 O-O 6.a3
LineCastleKingside ==
    << Ply("e","2","e","4"), Ply("e","7","e","5"), Ply("g","1","f","3"),
       Ply("b","8","c","6"), Ply("f","1","c","4"), Ply("f","8","c","5"),
       Ply("e","1","g","1"), Ply("g","8","f","6"), Ply("d","2","d","3"),
       Ply("e","8","g","8"), Ply("a","2","a","3") >>

\* 1.e4 e5 2.Nf3 Nc6 3.Bc4 Bc5 4.Ke2 Nf6 5.Ke1 Ke7 6.d3 Ke8 7.a3
LineKingReturns ==
    << Ply("e","2","e","4"), Ply("e","7","e","5"), Ply("g","1","f","3"),
       Ply("b","8","c","6"), Ply("f","1","c","4"), Ply("f","8","c","5"),
       Ply("e","1","e","2"), Ply("g","8","f","6"), Ply("e","2","e","1"),
       Ply("e","8","e","7"), Ply("d","2","d","3"), Ply("e","7","e","8"),
       Ply("a","2","a","3") >>

\* 1.d4 d5 2.Nc3 Nc6 3.Bf4 Bf5 4.Qd2 Qd7 5.O-O-O O-O-O 6.a3
LineCastleQueenside ==
    << Ply("d","2","d","4"), Ply("d","7","d","5"), Ply("b","1","c","3"),
       Ply("b","8","c","6"), Ply("c","1","f","4"), Ply("c","8","f","5"),
       Ply("d","1","d","2"), Ply("d","8","d","7"), Ply("e","1","c","1"),
       Ply("e","8","c","8"), Ply("a","2","a","3") >>

\* 1.Nf3 Nf6 2.Rg1 Rg8 3.Rh1 Rh8 4.e4 e5 5.Bc4 Bc5 6.d3 d6
LineRookReturns ==
    << Ply("g","1","f","3"), Ply("g","8","f","6"), Ply("h","1","g","1"),
       Ply("h","8","g","8"), Ply("g","1","h","1"), Ply("g","8","h","8"),
       Ply("e","2","e","4"), Ply("e","7","e","5"), Ply("f","1","c","4"),
       Ply("f","8","c","5"), Ply("d","2","d","3"), Ply("d","7","d","6") >>

\* 1.a4 Nf6 2.a5 Ng8 3.a6 Nf6 4.axb7 Ng8 5.bxa8 (promotion with capture) Nf6
LinePromotionCapture ==
    << Ply("a","2","a","4"), Ply("g","8","f","6"), Ply("a","4","a","5"),
       Ply("f","6","g","8"), Ply("a","5","a","6"), Ply("g","8","f","6"),
       Ply("a","6","b","7"), Ply("f","6","g","8"), Ply("b","7","a","8"),
       Ply("g","8","f","6"), Ply("b","2","b","3") >>

\* 1.a4 Nf6 2.a5 Ng8 3.a6 Nf6 4.axb7 Nc6 5.b8 (promotion onto an empty square) Ng8
LinePromotionQuiet ==
    << Ply("a","2","a","4"), Ply("g","8","f","6"), Ply("a","4","a","5"),
       Ply("f","6","g","8"), Ply("a","5","a","6"), Ply("g","8","f","6"),
       Ply("a","6","b","7"), Ply("b","8","c","6"), Ply("b","7","b","8"),
       Ply("f","6","g","8"), Ply("b","2","b","3") >>

\* 1.e4 f6 2.Qh5 a6 3.Qxe8 (the king is captured) a5
LineKingCapture ==
    << Ply("e","2","e","4"), Ply("f","7","f","6"), Ply("d","1","h","5"),
       Ply("a","7","a","6"), Ply("h","5","e","8"), Ply("a","6","a","5") >>

\* 1.f3 e5 2.a3 Qh4 3.a4 Qxe1: the white king is captured
LineKingCaptureBlack ==
    << Ply("f","2","f","3"), Ply("e","7","e","5"), Ply("a","2","a","3"),
       Ply("d","8","h","4"), Ply("a","3","a","4"), Ply("h","4","e","1") >>

Lines ==
    { LineEnPassantWhite, LineEnPassantRight, LineEnPassantDeclined, LineEnPassantBlack,
      LineCastleKingside, LineKingReturns, LineCastleQueenside, LineRookReturns,
      LinePromotionCapture, LinePromotionQuiet, LineKingCapture, LineKingCaptureBlack }

IsPrefix(s, t) == Len(s) <= Len(t) /\ \A i \in 1..Len(s) : s[i] = t[i]

\* the plies played so far, read off the move history
Played(history) == [i \in 1..Len(history) |-> [from |-> history[i].from, to |-> history[i].to]]

\* playing from -> to next stays within the games explored
Explored(history, from, to) ==
    LET game == Append(Played(history), [from |-> from, to |-> to])
    IN  Len(game) <= MaxPly /\ \E line \in Lines : IsPrefix(game, line)

-----------------------------------------------------------------------------
(* ChessGame *)

\* the Move object handleMove builds, for gameState.lastMove and for moveHistory
MoveRecord(piece, a) ==
    [from |-> a.from, to |-> a.to, piece |-> piece,
     capturedPiece |-> a.capturedPiece,
     isPromotion |-> a.isPromotion, isCastling |-> a.isCastling,
     castlingSide |-> a.castlingSide, isEnPassant |-> a.isEnPassant,
     promotedTo |-> Undefined]

\* HandleMoveUpdate that passes the turn to black whoever moved
HandleMoveUpdate_AlwaysBlack(prevState, piece, a) ==
    [board |-> prevState.board,
     currentPlayer |-> "black",
     lastMove |-> MoveRecord(piece, a),
     enPassantTarget |-> a.enPassantTarget]

\* HandleMoveUpdate that keeps the previous en passant target when the move sets none
HandleMoveUpdate_KeepTarget(prevState, piece, a) ==
    [board |-> prevState.board,
     currentPlayer |-> IF prevState.currentPlayer = "white" THEN "black" ELSE "white",
     lastMove |-> MoveRecord(piece, a),
     enPassantTarget |-> IF a.enPassantTarget = Null THEN prevState.enPassantTarget
                         ELSE a.enPassantTarget]

\* handleMove's setGameState updater, applied to prevState
HandleMoveUpdate(prevState, piece, a) ==
    [board |-> prevState.board,
     currentPlayer |-> IF prevState.currentPlayer = "white" THEN "black" ELSE "white",
     lastMove |-> MoveRecord(piece, a),
     enPassantTarget |-> a.enPassantTarget]

\* HandleMoveCaptured that lists captured white pieces only
HandleMoveCaptured_WhiteOnly(captured, capturedPiece) ==
    IF capturedPiece = Null THEN captured
    ELSE IF capturedPiece.color = "white"
         THEN [captured EXCEPT !.white = Append(@, capturedPiece)]
         ELSE captured

\* handleMove's update of capturedPieces
HandleMoveCaptured(captured, capturedPiece) ==
    IF capturedPiece = Null THEN captured
    ELSE IF capturedPiece.color = "white"
         THEN [captured EXCEPT !.white = Append(@, capturedPiece)]
         ELSE [captured EXCEPT !.black = Append(@, capturedPiece)]

\* HandleMoveWinner that names the side to move after the capture
HandleMoveWinner_NextPlayer(gs, w, capturedPiece) ==
    IF capturedPiece # Null /\ capturedPiece.type = "king"
    THEN Opponent(gs.currentPlayer) ELSE w

\* handleMove's update of winner; gs is the game state of the render the handler closes over
HandleMoveWinner(gs, w, capturedPiece) ==
    IF capturedPiece # Null /\ capturedPiece.type = "king" THEN gs.currentPlayer ELSE w

\* EffectMoved that leaves hasMoved as it was
EffectMoved_Keep(p) == p

\* the effect's { ...piece, hasMoved: true }
EffectMoved(p) == [p EXCEPT !.hasMoved = TRUE]

\* EffectCastleRook that puts the rook on the king's far side (column 6 resp. 2)
EffectCastleRook_WrongFile(board, row, castlingSide) ==
    IF castlingSide = "kingside"
    THEN Put(Put(board, row, 6, EffectMoved(board[row][7])), row, 7, Null)
    ELSE Put(Put(board, row, 2, EffectMoved(board[row][0])), row, 0, Null)

\* the effect's rook relocation of a castling move
EffectCastleRook(board, row, castlingSide) ==
    IF castlingSide = "kingside"
    THEN Put(Put(board, row, 5, EffectMoved(board[row][7])), row, 7, Null)
    ELSE Put(Put(board, row, 3, EffectMoved(board[row][0])), row, 0, Null)

\* the effect's row of the pawn an en passant capture removes
EffectCaptureRow(piece, to) == IF piece.color = "white" THEN to.row + 1 ELSE to.row - 1

\* the board the move-application effect computes from the rendered game state
EffectBoard(gs) ==
    LET m == gs.lastMove
        cleared == Put(gs.board, m.from.row, m.from.col, Null)
        placed == Put(cleared, m.to.row, m.to.col, EffectMoved(m.piece))
        castled == IF m.isCastling /\ m.castlingSide # Undefined
                   THEN EffectCastleRook(placed, m.from.row, m.castlingSide)
                   ELSE placed
    IN  IF ~m.isPromotion
        THEN IF m.isEnPassant
             THEN Put(castled, EffectCaptureRow(m.piece, m.to), m.to.col, Null)
             ELSE castled
        ELSE placed

\* useEffect(..., [gameState.lastMove]): runs after a render in which lastMove changed
ApplyMoveEffect(gs) ==
    IF gs.lastMove # Null THEN [gs EXCEPT !.board = EffectBoard(gs)] ELSE gs

\* handlePromotion's setGameState, queued behind handleMove's: the board it
\* writes is built from the game state of the render the handler closes over
HandlePromotionUpdate(prevState, gs, position, newType) ==
    LET piece == At(gs.board, position)
    IN  IF piece # Null /\ piece.type = "pawn"
        THEN [prevState EXCEPT !.board = Put(gs.board, position.row, position.col,
                                             Piece(newType, piece.color, TRUE))]
        ELSE prevState

\* handlePromotion's setMoveHistory, issued after handleMove's: `history` is the
\* moveHistory of the render the handler closes over, `queued` what handleMove set
HandlePromotionHistory(queued, history, gs, position, newType) ==
    LET piece == At(gs.board, position)
    IN  IF piece # Null /\ piece.type = "pawn" /\ Len(history) > 0
        THEN [history EXCEPT ![Len(history)] =
                 [@ EXCEPT !.isPromotion = TRUE, !.promotedTo = newType]]
        ELSE queued

\* onMove(...) from a click or from the promotion dialog, followed, when
\* promo is not Null, by onPromotion(promo.position, promo.newType) in the same
\* event handler; then the render and the move-application effect.
CommitMove(a, promo) ==
    LET piece == At(gameState.board, a.from)
        gs1 == HandleMoveUpdate(gameState, piece, a)
        gs2 == IF promo = Null THEN gs1
               ELSE HandlePromotionUpdate(gs1, gameState, promo.position, promo.newType)
        mh1 == Append(moveHistory, MoveRecord(piece, a))
        mh2 == IF promo = Null THEN mh1
               ELSE HandlePromotionHistory(mh1, moveHistory, gameState,
                                           promo.position, promo.newType)
    IN  IF piece = Null
        THEN \* handleMove returns at once; only handlePromotion may write
             /\ gameState' = IF promo = Null THEN gameState
                             ELSE HandlePromotionUpdate(gameState, gameState,
                                                        promo.position, promo.newType)
             /\ moveHistory' = IF promo = Null THEN moveHistory
                               ELSE HandlePromotionHistory(moveHistory, moveHistory, gameState,
                                                           promo.position, promo.newType)
             /\ UNCHANGED <<lastMove, capturedPieces, winner>>
        ELSE /\ gameState' = ApplyMoveEffect(gs2)
             /\ moveHistory' = mh2
             /\ lastMove' = [from |-> a.from, to |-> a.to]
             /\ capturedPieces' = HandleMoveCaptured(capturedPieces, a.capturedPiece)
             /\ winner' = HandleMoveWinner(gameState, winner, a.capturedPiece)

resetGame ==
    /\ promotionPosition = Null
    /\ gameState' = [board |-> initializeBoard, currentPlayer |-> "white",
                     lastMove |-> Null, enPassantTarget |-> Null]
    /\ moveHistory' = <<>>
    /\ lastMove' = Null
    /\ capturedPieces' = [white |-> <<>>, black |-> <<>>]
    /\ winner' = NullString
    /\ UNCHANGED <<selectedSquare, promotionPosition, promotionSelectValue, pendingPromotion>>

-----------------------------------------------------------------------------
(* ChessBoard *)

\* gameOver that is never set
gameOver_Never == FALSE

gameOver == winner # NullString

\* the list the selection effect keeps in validMoves (the highlighted squares)
validMoves ==
    IF selectedSquare # Null THEN getValidMoves(gameState, selectedSquare) ELSE <<>>

\* the arguments of onMove for a move made by a click
ClickMoveArgs(from, to) ==
    LET r == applyMove(gameState, from, to)
    IN  [from |-> from, to |-> to, capturedPiece |-> r.capturedPiece,
         isPromotion |-> r.isPromotion, isCastling |-> r.isCastling,
         isEnPassant |-> r.isEnPassant, enPassantTarget |-> r.enPassantTarget,
         castlingSide |-> r.castlingSide]

\* what handleSquareClick stores in pendingPromotion
PendingPromotion(from, to) ==
    LET r == applyMove(gameState, from, to)
    IN  [from |-> from, to |-> to, capturedPiece |-> r.capturedPiece,
         isEnPassant |-> r.isEnPassant, enPassantTarget |-> r.enPassantTarget]

\* the promotion test handleSquareClick makes itself
ClickIsPromotion(selectedPiece, position) ==
    /\ selectedPiece # Null
    /\ selectedPiece.type = "pawn"
    /\ \/ (selectedPiece.color = "white" /\ position.row = 0)
       \/ (selectedPiece.color = "black" /\ position.row = 7)

\* The promotion dialog is modal: while it is open no square can be clicked.
handleSquareClick(position) ==
    LET board == gameState.board
        currentPlayer == gameState.currentPlayer
        piece == At(board, position)
    IN
    /\ promotionPosition = Null
    /\ IF gameOver THEN UNCHANGED vars
       ELSE IF selectedSquare = Null
       THEN /\ selectedSquare' = IF piece # Null /\ piece.color = currentPlayer
                                 THEN position ELSE selectedSquare
            /\ UNCHANGED <<gameState, moveHistory, lastMove, capturedPieces, winner,
                           promotionPosition, promotionSelectValue, pendingPromotion>>
       ELSE IF position.row = selectedSquare.row /\ position.col = selectedSquare.col
       THEN /\ selectedSquare' = Null
            /\ UNCHANGED <<gameState, moveHistory, lastMove, capturedPieces, winner,
                           promotionPosition, promotionSelectValue, pendingPromotion>>
       ELSE IF isValidMove(gameState, selectedSquare, position)
       THEN /\ Explored(moveHistory, selectedSquare, position)
            /\ IF ClickIsPromotion(At(board, selectedSquare), position)
               THEN /\ pendingPromotion' = PendingPromotion(selectedSquare, position)
                    /\ promotionPosition' = position
                    /\ UNCHANGED <<gameState, moveHistory, lastMove, capturedPieces, winner,
                                   selectedSquare, promotionSelectValue>>
               ELSE /\ CommitMove(ClickMoveArgs(selectedSquare, position), Null)
                    /\ selectedSquare' = Null
                    /\ UNCHANGED <<promotionPosition, promotionSelectValue, pendingPromotion>>
       ELSE /\ selectedSquare' = IF piece # Null /\ piece.color = currentPlayer
                                 THEN position ELSE Null
            /\ UNCHANGED <<gameState, moveHistory, lastMove, capturedPieces, winner,
                           promotionPosition, promotionSelectValue, pendingPromotion>>

\* the four choices offered in the dialog
PromotionChoices == {"queen", "rook", "bishop", "knight"}

\* the choices the explored games click in the dialog ("queen" is preselected)
DialogClicks == {"knight"}

\* onClick of a choice in the dialog: setPromotionSelectValue(piece)
selectPromotionPiece(pieceType) ==
    /\ promotionPosition # Null
    /\ promotionSelectValue' = pieceType
    /\ UNCHANGED <<gameState, moveHistory, lastMove, capturedPieces, winner,
                   selectedSquare, promotionPosition, pendingPromotion>>

handlePromotionConfirm ==
    /\ promotionPosition # Null
    /\ pendingPromotion # Null
    /\ CommitMove([from |-> pendingPromotion.from, to |-> pendingPromotion.to,
                   capturedPiece |-> pendingPromotion.capturedPiece,
                   isPromotion |-> TRUE, isCastling |-> FALSE,
                   isEnPassant |-> pendingPromotion.isEnPassant,
                   enPassantTarget |-> pendingPromotion.enPassantTarget,
                   castlingSide |-> Undefined],
                  [position |-> pendingPromotion.to, newType |-> promotionSelectValue])
    /\ selectedSquare' = Null
    /\ promotionPosition' = Null
    /\ pendingPromotion' = Null
    /\ UNCHANGED promotionSelectValue

\* dismissPromotion that makes the pending move as an ordinary move
dismissPromotion_Commits ==
    /\ promotionPosition # Null
    /\ pendingPromotion # Null
    /\ CommitMove(ClickMoveArgs(pendingPromotion.from, pendingPromotion.to), Null)
    /\ promotionPosition' = Null
    /\ pendingPromotion' = Null
    /\ UNCHANGED <<selectedSquare, promotionSelectValue>>

\* Dialog onOpenChange(false): the dialog is dismissed without confirming
dismissPromotion ==
    /\ promotionPosition # Null
    /\ promotionPosition' = Null
    /\ pendingPromotion' = Null
    /\ UNCHANGED <<gameState, moveHistory, lastMove, capturedPieces, winner,
                   selectedSquare, promotionSelectValue>>

-----------------------------------------------------------------------------
(* Specification *)

Init ==
    /\ gameState = [board |-> initializeBoard, currentPlayer |-> "white",
                    lastMove |-> Null, enPassantTarget |-> Null]
    /\ moveHistory = <<>>
    /\ lastMove = Null
    /\ capturedPieces = [white |-> <<>>, black |-> <<>>]
    /\ winner = NullString
    /\ selectedSquare = Null
    /\ promotionPosition = Null
    /\ promotionSelectValue = "queen"
    /\ pendingPromotion = Null

Next ==
    \/ \E position \in Squares : handleSquareClick(position)
    \/ \E pieceType \in DialogClicks : selectPromotionPiece(pieceType)
    \/ handlePromotionConfirm
    \/ dismissPromotion
    \/ resetGame

Spec == Init /\ [][Next]_vars

-----------------------------------------------------------------------------
(* The rules engine on its own *)

\* The engine driven by a caller that follows its contract: a move is played
\* only when isValidMove accepts it; the caller installs applyMove's newBoard
\* (after promotePawn when applyMove reports a promotion) and enPassantTarget,
\* records the move and passes the turn.  The ChessBoard and ChessGame state
\* other than gameState and moveHistory stays as constructed.

\* 1.a4 h5 2.Ra3 Rh6 3.Rh3 Rb6 4.Rxh5 Rxb2 5.Bxb2 d5 6.Be5
LineRookLift ==
    << Ply("a","2","a","4"), Ply("h","7","h","5"), Ply("a","1","a","3"),
       Ply("h","8","h","6"), Ply("a","3","h","3"), Ply("h","6","b","6"),
       Ply("h","3","h","5"), Ply("b","6","b","2"), Ply("c","1","b","2"),
       Ply("d","7","d","5"), Ply("b","2","e","5") >>

\* 1.d4 e5 2.dxe5 d6 3.Bg5 Bg4 4.exd6 Bxe2 5.dxc7 Bxd1 6.cxd8 (promotion)
LinePawnsAndBishops ==
    << Ply("d","2","d","4"), Ply("e","7","e","5"), Ply("d","4","e","5"),
       Ply("d","7","d","6"), Ply("c","1","g","5"), Ply("c","8","g","4"),
       Ply("e","5","d","6"), Ply("g","4","e","2"), Ply("d","6","c","7"),
       Ply("e","2","d","1"), Ply("c","7","d","8") >>

\* 1.b4 a5 2.h3 axb4 3.h4 b3 4.h5 bxa2 5.h6 axb1 (promotion) 6.hxg7
LineBlackPromotes ==
    << Ply("b","2","b","4"), Ply("a","7","a","5"), Ply("h","2","h","3"),
       Ply("a","5","b","4"), Ply("h","3","h","4"), Ply("b","4","b","3"),
       Ply("h","4","h","5"), Ply("b","3","a","2"), Ply("h","5","h","6"),
       Ply("a","2","b","1"), Ply("h","6","g","7") >>

\* 1.e4 e5 2.a3
LineOpenGame ==
    << Ply("e","2","e","4"), Ply("e","7","e","5"), Ply("a","2","a","3") >>

EngineLines ==
    Lines \cup {LineRookLift, LinePawnsAndBishops, LineBlackPromotes, LineOpenGame}

\* playing from -> to next stays within the games the engine is driven through
EngineExplored(history, from, to) ==
    LET game == Append(Played(history), [from |-> from, to |-> to])
    IN  Len(game) <= MaxPly /\ \E line \in EngineLines : IsPrefix(game, line)

\* the piece types a caller promotes to
EngineChoices(gs, from, to) ==
    IF isPawnPromotion(to, At(gs.board, from)) THEN PromotionChoices ELSE {"queen"}

EngineMove(from, to, newType) ==
    LET r == applyMove(gameState, from, to)
        piece == At(gameState.board, from)
        move == [from |-> from, to |-> to, piece |-> piece,
                 capturedPiece |-> r.capturedPiece,
                 isPromotion |-> r.isPromotion, isCastling |-> r.isCastling,
                 castlingSide |-> r.castlingSide, isEnPassant |-> r.isEnPassant,
                 promotedTo |-> IF r.isPromotion THEN newType ELSE Undefined]
    IN  /\ isValidMove(gameState, from, to)
        /\ EngineExplored(moveHistory, from, to)
        /\ gameState' =
              [board |-> IF r.isPromotion THEN promotePawn(r.newBoard, to, newType)
                         ELSE r.newBoard,
               currentPlayer |-> Opponent(gameState.currentPlayer),
               lastMove |-> move,
               enPassantTarget |-> r.enPassantTarget]
        /\ moveHistory' = Append(moveHistory, move)
        /\ UNCHANGED <<lastMove, capturedPieces, winner, selectedSquare,
                       promotionPosition, promotionSelectValue, pendingPromotion>>

EngineNext ==
    \E from \in Squares : \E to \in Squares :
        \E newType \in EngineChoices(gameState, from, to) : EngineMove(from, to, newType)

EngineSpec == Init /\ [][EngineNext]_vars

-----------------------------------------------------------------------------
(* Properties *)

Board == gameState.board

CurrentPlayer == gameState.currentPlayer

\* the squares holding a piece of the side to move
OwnSquares == {s \in Squares : At(Board, s) # Null /\ At(Board, s).color = CurrentPlayer}

\* the moves isValidMove accepts in the current game state
AcceptedFrom(from) == {to \in Squares : isValidMove(gameState, from, to)}

HomeRow(color) == IF color = "white" THEN 7 ELSE 0

InitialGameState ==
    [board |-> initializeBoard, currentPlayer |-> "white",
     lastMove |-> Null, enPassantTarget |-> Null]

\* C1: isValidMove returns false, without raising, whenever `from` is empty,
\* or holds a piece of the side not to move, or `to` holds a piece of the side
\* to move; no move in the history captured a piece of the mover's colour; and
\* from the start position a1 -> a2 is rejected.
C1_OwnColourNeverCaptured ==
    /\ \A from \in Squares :
         LET p == At(Board, from)
         IN  IF p = Null \/ p.color # CurrentPlayer
             THEN \A to \in Squares : isValidMove(gameState, from, to) = FALSE
             ELSE \A to \in OwnSquares : isValidMove(gameState, from, to) = FALSE
    /\ \A i \in 1..Len(moveHistory) :
         moveHistory[i].capturedPiece # Null
            => moveHistory[i].capturedPiece.color # moveHistory[i].piece.color
    /\ isValidMove(InitialGameState, notationToPosition(<<"a", "1">>),
                   notationToPosition(<<"a", "2">>)) = FALSE

\* a capture has just been made by a piece other than a pawn
C1_Witness ==
    /\ gameState.lastMove # Null
    /\ gameState.lastMove.capturedPiece # Null
    /\ gameState.lastMove.piece.type = "queen"

\* the move that led to the current game state was a two-square pawn advance
PrecedingMoveIsDoubleStep ==
    /\ gameState.lastMove # Null
    /\ gameState.lastMove.piece.type = "pawn"
    /\ Abs(gameState.lastMove.from.row - gameState.lastMove.to.row) = 2

\* C2: the en passant target is non-null in a state iff the immediately
\* preceding move was a two-square pawn advance; after every other move (an
\* en passant capture included) it is null.
C2_EnPassantOnePly ==
    (gameState.enPassantTarget # Null) <=> PrecedingMoveIsDoubleStep

\* an en passant capture has just been made, and the target is cleared
C2_Witness ==
    /\ gameState.lastMove # Null
    /\ gameState.lastMove.isEnPassant
    /\ gameState.enPassantTarget = Null

\* previous en passant targets applyMove is tried with, for a move to `to`
EnPassantInputs(to) == {Null, to, Pos(to.row, 7 - to.col)}

\* C3: for every accepted move, applyMove returns as enPassantTarget the
\* square the pawn skipped (the pawn's column; row from.row - 1 for white,
\* from.row + 1 for black, which is the square behind the landing square) when
\* the moved piece is a pawn that advanced two rows, and null otherwise,
\* whatever the previous state's enPassantTarget.
C3_NewEnPassantTarget ==
    \A from \in OwnSquares : \A to \in AcceptedFrom(from) :
        LET piece == At(Board, from)
            expected ==
                IF piece.type = "pawn" /\ Abs(from.row - to.row) = 2
                THEN Pos(IF piece.color = "white" THEN from.row - 1 ELSE from.row + 1,
                         from.col)
                ELSE Null
        IN  /\ applyMove(gameState, from, to).enPassantTarget = expected
            /\ expected # Null =>
                  /\ expected.col = to.col
                  /\ expected.row = IF piece.color = "white" THEN to.row + 1 ELSE to.row - 1
            /\ \A ep \in EnPassantInputs(to) :
                  applyMove([gameState EXCEPT !.enPassantTarget = ep], from, to).enPassantTarget
                     = expected

\* a black pawn has just advanced two squares and the skipped square is stored
C3_Witness ==
    /\ PrecedingMoveIsDoubleStep
    /\ gameState.lastMove.piece.color = "black"
    /\ gameState.enPassantTarget = Pos(2, gameState.lastMove.to.col)

\* the pawns of the side to move standing beside the pawn that just advanced
\* two squares: same row as that pawn, one column to the left or right
BesideAdvancedPawn ==
    {s \in OwnSquares :
        /\ At(Board, s).type = "pawn"
        /\ gameState.enPassantTarget # Null
        /\ s.row = gameState.lastMove.to.row
        /\ Abs(s.col - gameState.lastMove.to.col) = 1}

\* C4: immediately after a pawn advanced two squares to column c, isValidMove
\* accepts, for an enemy pawn beside it, the diagonal forward move onto the
\* skipped square (row 2 for a white capturer, row 5 for a black one, column
\* c), which is empty; when the target is null, a diagonal forward pawn move
\* onto an empty square is rejected.
C4_EnPassantWindowMoves ==
    /\ \A from \in BesideAdvancedPawn :
          LET target == gameState.enPassantTarget
          IN  /\ target = Pos(IF CurrentPlayer = "white" THEN 2 ELSE 5,
                              gameState.lastMove.to.col)
              /\ target.row = from.row + (IF CurrentPlayer = "white" THEN -1 ELSE 1)
              /\ At(Board, target) = Null
              /\ isValidMove(gameState, from, target)
    /\ gameState.enPassantTarget = Null =>
          \A from \in OwnSquares : \A to \in Squares :
             ( /\ At(Board, from).type = "pawn"
               /\ Abs(from.col - to.col) = 1
               /\ to.row = from.row + (IF CurrentPlayer = "white" THEN -1 ELSE 1)
               /\ At(Board, to) = Null )
             => ~isValidMove(gameState, from, to)

\* an en passant window is open and a pawn of the side to move stands beside
\* the advanced pawn
C4_Witness == BesideAdvancedPawn # {}

\* the window of C4_Witness was left unused: two plies after a black pawn
\* advanced two squares beside a white pawn, both still stand there
C4_WitnessLater ==
    /\ Len(moveHistory) >= 3
    /\ gameState.enPassantTarget = Null
    /\ LET m == moveHistory[Len(moveHistory) - 2]
       IN  /\ m.piece.type = "pawn" /\ Abs(m.from.row - m.to.row) = 2
           /\ At(Board, m.to) # Null /\ At(Board, m.to).type = "pawn"
           /\ \E s \in OwnSquares :
                 /\ At(Board, s).type = "pawn"
                 /\ s.row = m.to.row /\ Abs(s.col - m.to.col) = 1
                 /\ At(Board, Pos((m.from.row + m.to.row) \div 2, m.to.col)) = Null

\* the square of the pawn an en passant capture to `to` by `color` removes
VictimSquare(color, to) == Pos(IF color = "white" THEN to.row + 1 ELSE to.row - 1, to.col)

\* C5: after applyMove on an accepted en passant capture the capturing pawn
\* stands on `to` with hasMoved = true, `from` is empty, and the enemy pawn one
\* row behind `to` (to.row + 1 for white, to.row - 1 for black) is removed;
\* `to` itself was empty.  The board the game holds after such a move shows
\* the same.
C5_EnPassantEffect ==
    /\ \A from \in OwnSquares : \A to \in AcceptedFrom(from) :
          LET r == applyMove(gameState, from, to)
              pawn == At(Board, from)
              victim == VictimSquare(pawn.color, to)
          IN  r.isEnPassant =>
                /\ At(r.newBoard, to) = Piece("pawn", pawn.color, TRUE)
                /\ At(r.newBoard, from) = Null
                /\ At(Board, victim) # Null
                /\ At(Board, victim).type = "pawn"
                /\ At(Board, victim).color = Opponent(pawn.color)
                /\ At(r.newBoard, victim) = Null
                /\ At(Board, to) = Null
                /\ \A s \in Squares \ {from, to, victim} : At(r.newBoard, s) = At(Board, s)
    /\ (gameState.lastMove # Null /\ gameState.lastMove.isEnPassant) =>
          LET m == gameState.lastMove
          IN  /\ At(Board, m.to) = Piece("pawn", m.piece.color, TRUE)
              /\ At(Board, m.from) = Null
              /\ At(Board, VictimSquare(m.piece.color, m.to)) = Null

\* a black pawn has just captured en passant
C5_Witness ==
    /\ gameState.lastMove # Null
    /\ gameState.lastMove.isEnPassant
    /\ gameState.lastMove.piece.color = "black"

\* C6: for every accepted move the capturedPiece applyMove reports is the en
\* passant victim when the move is an en passant capture, otherwise the piece
\* that occupied `to` before the move, and null when `to` was empty and the
\* move is no en passant capture.
C6_ReportedCapture ==
    \A from \in OwnSquares : \A to \in AcceptedFrom(from) :
        LET r == applyMove(gameState, from, to)
        IN  r.capturedPiece =
               IF r.isEnPassant
               THEN At(Board, VictimSquare(At(Board, from).color, to))
               ELSE At(Board, to)

\* an en passant capture is on offer: the reported capture is not what stands on `to`
C6_Witness ==
    \E from \in OwnSquares : \E to \in AcceptedFrom(from) :
        /\ applyMove(gameState, from, to).isEnPassant
        /\ applyMove(gameState, from, to).capturedPiece # At(Board, to)

\* the king moves two columns along its row
CastlingShaped(from, to) == from.row = to.row /\ Abs(from.col - to.col) = 2

\* the squares strictly between columns c1 and c2 of a row are empty
RowEmptyBetween(board, row, c1, c2) ==
    \A c \in Cols : ((c1 < c /\ c < c2) \/ (c2 < c /\ c < c1)) => board[row][c] = Null

\* the castling rule as the claim states it, for the king on `from`
CastlingRule(gs, from, to) ==
    LET king == At(gs.board, from)
        rookCol == IF to.col = 6 THEN 7 ELSE 0
        rook == gs.board[from.row][rookCol]
    IN  /\ king.hasMoved = FALSE
        /\ to.col \in {6, 2}
        /\ rook # Null
        /\ rook.type = "rook"
        /\ rook.color = king.color
        /\ rook.hasMoved = FALSE
        /\ RowEmptyBetween(gs.board, from.row, from.col, rookCol)

\* what a square of the king's row is replaced by in CastlingVariants
VariantPieces(color) ==
    {Null, Piece("rook", color, FALSE), Piece("rook", color, TRUE),
     Piece("rook", Opponent(color), FALSE), Piece("knight", color, FALSE)}

\* game states that differ from the current one in one square of the row of
\* the king on `from` and in the king's hasMoved: inputs of isValidMove
CastlingVariants(from) ==
    LET king == At(Board, from)
    IN  {[gameState EXCEPT !.board =
             Put(Put(@, from.row, c, x), from.row, from.col, [king EXCEPT !.hasMoved = h])] :
           c \in Cols \ {from.col}, x \in VariantPieces(king.color), h \in BOOLEAN}

\* C7: for a king of the side to move and a destination two columns away on
\* the same row, isValidMove returns true (in the current game state and in
\* its CastlingVariants) iff the king has not moved, the
\* destination column is 6 or 2, an unmoved rook of the king's colour stands
\* on column 7 (resp. 0) of that row and every square strictly between king
\* and rook is empty; kingside castling is rejected while the f- or g-file
\* square of the home row is occupied.
C7_CastlingLegality ==
    \A from \in OwnSquares :
        At(Board, from).type = "king" =>
           /\ \A to \in Squares :
                 CastlingShaped(from, to) =>
                    /\ isValidMove(gameState, from, to) <=> CastlingRule(gameState, from, to)
                    /\ \A gs \in CastlingVariants(from) :
                          isValidMove(gs, from, to) <=> CastlingRule(gs, from, to)
           /\ (from = Pos(HomeRow(CurrentPlayer), 4)
                 /\ (Board[from.row][5] # Null \/ Board[from.row][6] # Null))
              => ~isValidMove(gameState, from, Pos(from.row, 6))

\* castling is on offer to the side to move, on the queenside
C7_Witness ==
    \E from \in OwnSquares :
        /\ At(Board, from).type = "king"
        /\ isValidMove(gameState, from, Pos(from.row, 2))
        /\ CastlingShaped(from, Pos(from.row, 2))

\* a king of `color` has made a move
KingHasMoved(color) ==
    \E i \in 1..Len(moveHistory) :
        moveHistory[i].piece.type = "king" /\ moveHistory[i].piece.color = color

\* the rook of `color` that started on column col of the home row has made a
\* move of its own or has been moved by castling
RookHasMoved(color, col) ==
    \E i \in 1..Len(moveHistory) :
        /\ moveHistory[i].piece.color = color
        /\ \/ moveHistory[i].piece.type = "rook"
              /\ moveHistory[i].from = Pos(HomeRow(color), col)
           \/ moveHistory[i].piece.type = "king"
              /\ moveHistory[i].isCastling
              /\ moveHistory[i].castlingSide = (IF col = 7 THEN "kingside" ELSE "queenside")

\* C8: once a king or a rook has been moved its hasMoved is true in every
\* later state: a king that has moved shows hasMoved = true, a rook showing
\* hasMoved = false stands on its corner and has never left it; and isValidMove
\* rejects every castling move of a colour whose king has moved, and castling
\* on the side of a rook that has moved, also after the piece has returned.
C8_HasMovedSticky ==
    \A color \in PieceColor :
        /\ \A s \in Squares :
              LET p == At(Board, s)
              IN  (p # Null /\ p.color = color) =>
                    /\ (p.type = "king" /\ KingHasMoved(color)) => p.hasMoved
                    /\ (p.type = "rook" /\ ~p.hasMoved) =>
                          /\ s.row = HomeRow(color)
                          /\ s.col \in {0, 7}
                          /\ ~RookHasMoved(color, s.col)
        /\ CurrentPlayer = color =>
              \A from \in OwnSquares :
                 At(Board, from).type = "king" =>
                    \A to \in Squares :
                       CastlingShaped(from, to) =>
                          /\ KingHasMoved(color) => ~isValidMove(gameState, from, to)
                          /\ (to.col > from.col /\ RookHasMoved(color, 7))
                                => ~isValidMove(gameState, from, to)
                          /\ (to.col < from.col /\ RookHasMoved(color, 0))
                                => ~isValidMove(gameState, from, to)

\* the white king has moved and is back on e1, with f1 and g1 empty and the
\* h1 rook unmoved: only hasMoved stands in the way of castling kingside
C8_Witness ==
    /\ CurrentPlayer = "white"
    /\ KingHasMoved("white")
    /\ At(Board, Pos(7, 4)) # Null
    /\ At(Board, Pos(7, 4)).type = "king"
    /\ At(Board, Pos(7, 5)) = Null
    /\ At(Board, Pos(7, 6)) = Null
    /\ At(Board, Pos(7, 7)) = Piece("rook", "white", FALSE)

\* C9: for every castling move isValidMove accepts, the board applyMove
\* returns has the king on column 6 (kingside) or 2 (queenside) and the rook
\* on column 5 (taken from 7) or 3 (taken from 0) of the same row, both with
\* hasMoved = true, the origin squares of king and rook empty, no piece
\* captured, and isCastling with the matching castlingSide reported.
C9_CastlingEffect ==
    \A from \in OwnSquares :
        At(Board, from).type = "king" =>
           \A to \in AcceptedFrom(from) :
              CastlingShaped(from, to) =>
                 LET r == applyMove(gameState, from, to)
                     kingside == to.col > from.col
                     rookFrom == Pos(from.row, IF kingside THEN 7 ELSE 0)
                     rookTo == Pos(from.row, IF kingside THEN 5 ELSE 3)
                 IN  /\ to.col = (IF kingside THEN 6 ELSE 2)
                     /\ At(r.newBoard, to) = Piece("king", CurrentPlayer, TRUE)
                     /\ At(r.newBoard, rookTo) = Piece("rook", CurrentPlayer, TRUE)
                     /\ At(r.newBoard, from) = Null
                     /\ At(r.newBoard, rookFrom) = Null
                     /\ r.capturedPiece = Null
                     /\ r.isCastling
                     /\ r.castlingSide = (IF kingside THEN "kingside" ELSE "queenside")
                     /\ \A s \in Squares \ {from, to, rookFrom, rookTo} :
                           At(r.newBoard, s) = At(Board, s)

\* castling is on offer to black, on the kingside
C9_Witness ==
    /\ CurrentPlayer = "black"
    /\ At(Board, Pos(0, 4)) # Null
    /\ At(Board, Pos(0, 4)).type = "king"
    /\ isValidMove(gameState, Pos(0, 4), Pos(0, 6))

\* C10: when a pawn move onto the far rank has been confirmed in the
\* promotion dialog with the chosen piece type, the landing square holds a
\* piece of that type with the pawn's colour and hasMoved = true, and no pawn
\* stands on row 0 or row 7.
C10_PromotionHandOff ==
    /\ \A c \in Cols : Board[0][c].type # "pawn" /\ Board[7][c].type # "pawn"
    /\ (gameState.lastMove # Null /\ gameState.lastMove.isPromotion
          /\ promotionPosition = Null) =>
          At(Board, gameState.lastMove.to) =
             Piece(promotionSelectValue, gameState.lastMove.piece.color, TRUE)

\* the reference of the board in HeapOf
InputBoard == Ref("board", 0)

\* two boards hold the same on every square except possibly those of `except`
SameExcept(b1, b2, except) ==
    \A r \in Rows :
        IF \E s \in except : s.row = r
        THEN \A c \in Cols : Pos(r, c) \notin except => b1[r][c] = b2[r][c]
        ELSE b1[r] = b2[r]

\* the piece types promotePawn is tried in memory with
MemoryChoices == {"queen", "knight"}

\* C11: promotePawn(board, position, newType) returns a board whose square
\* `position` holds a piece of type newType with the pawn's colour and
\* hasMoved = true when `position` held a pawn, and a board equal to the input
\* on every square when `position` is empty or holds another piece; every
\* other square equals the input's, and the input board reads the same after
\* the call as before it.  The engine's caller, promoting after applyMove,
\* gets that piece on the landing square.
C11_PromotePawn ==
    /\ \A position \in Squares : \A newType \in PieceType :
          LET piece == At(Board, position)
              newBoard == promotePawn(Board, position, newType)
          IN  /\ IF piece # Null /\ piece.type = "pawn"
                 THEN At(newBoard, position) = Piece(newType, piece.color, TRUE)
                 ELSE newBoard = Board
              /\ SameExcept(newBoard, Board, {position})
    /\ LET heap == HeapOf(gameState)
       IN  \A position \in Squares : \A newType \in MemoryChoices :
              LET after == promotePawnInMemory(heap, InputBoard, position, newType)
              IN  /\ ReadBoard(after.heap, after.newBoard) = promotePawn(Board, position, newType)
                  /\ ReadBoard(after.heap, InputBoard) = Board
    /\ (gameState.lastMove # Null /\ gameState.lastMove.isPromotion) =>
          At(Board, gameState.lastMove.to) =
             Piece(gameState.lastMove.promotedTo, gameState.lastMove.piece.color, TRUE)

\* a black pawn has just been promoted to a knight, and pawns, other pieces
\* and empty squares are there to call promotePawn on
C11_Witness ==
    /\ gameState.lastMove # Null
    /\ gameState.lastMove.isPromotion
    /\ gameState.lastMove.piece.color = "black"
    /\ At(Board, gameState.lastMove.to) = Piece("knight", "black", TRUE)
    /\ \E s \in Squares : At(Board, s).type = "pawn" /\ ~At(Board, s).hasMoved

\* the far rank of a pawn of `color`
FarRow(color) == IF color = "white" THEN 0 ELSE 7

\* C12: for every accepted move applyMove reports isPromotion = true iff the
\* moving piece is a pawn and `to` lies on row 0 (white pawn) or row 7 (black
\* pawn), which is the value isPawnPromotion(to, piece) returns, for every
\* square and piece; and the piece on `to` in newBoard has the type of the
\* moved piece: a promoting pawn is still a pawn there.
C12_IsPromotion ==
    /\ \A position \in Squares : \A t \in PieceType : \A c \in PieceColor :
          \A h \in BOOLEAN :
             isPawnPromotion(position, Piece(t, c, h))
                <=> (t = "pawn" /\ position.row = FarRow(c))
    /\ \A from \in OwnSquares : \A to \in AcceptedFrom(from) :
          LET r == applyMove(gameState, from, to)
              piece == At(Board, from)
          IN  /\ r.isPromotion <=> (piece.type = "pawn" /\ to.row = FarRow(piece.color))
              /\ r.isPromotion = isPawnPromotion(to, piece)
              /\ At(r.newBoard, to) = Piece(piece.type, piece.color, TRUE)
              /\ r.isPromotion => At(r.newBoard, to).type = "pawn"

\* a black pawn stands one step from row 7 with a move onto it accepted
C12_Witness ==
    /\ CurrentPlayer = "black"
    /\ \E from \in OwnSquares : \E to \in AcceptedFrom(from) :
          /\ At(Board, from).type = "pawn"
          /\ to.row = 7
          /\ applyMove(gameState, from, to).isPromotion

\* the squares holding a piece
Occupied == {s \in Squares : At(Board, s) # Null}

\* destinations isValidMove need not accept, for applyMove called on any pair
Reflections(from) == {Pos(from.row, 7 - from.col), Pos(7 - from.row, from.col)}

\* the game state the engine functions read, without the caller's bookkeeping
EngineInput ==
    [board |-> Board, currentPlayer |-> CurrentPlayer,
     enPassantTarget |-> gameState.enPassantTarget]

\* C13: applyMove(state, from, to) never mutates its input: after the call
\* every array and object of the input is what it was before, so every square
\* of state.board holds a piece with the same type, colour and hasMoved (or is
\* still empty) and state.enPassantTarget and state.currentPlayer are
\* unchanged; the board it returns is a new array.
C13_ApplyMoveKeepsInput ==
    LET heap == HeapOf(gameState)
    IN  \A from \in Occupied : \A to \in AcceptedFrom(from) \cup Reflections(from) :
           LET after == applyMoveInMemory(heap, StateRef, from, to)
           IN  /\ \A a \in DOMAIN heap.arrays : after.heap.arrays[a] = heap.arrays[a]
               /\ \A o \in DOMAIN heap.objects : after.heap.objects[o] = heap.objects[o]
               /\ ReadState(after.heap, StateRef) = EngineInput
               /\ after.newBoard \notin DOMAIN heap.arrays
               /\ ReadBoard(after.heap, after.newBoard) = applyMove(gameState, from, to).newBoard
               /\ Deref(after.heap, after.capturedPiece)
                     = applyMove(gameState, from, to).capturedPiece

\* white may castle kingside: applyMove writes four cells of the king's row
C13_Witness ==
    /\ CurrentPlayer = "white"
    /\ isValidMove(gameState, Pos(7, 4), Pos(7, 6))
    /\ LET after == applyMoveInMemory(HeapOf(gameState), StateRef, Pos(7, 4), Pos(7, 6))
       IN  /\ ReadBoard(after.heap, after.newBoard)[7] # Board[7]
           /\ ReadBoard(after.heap, InputBoard)[7] = Board[7]

\* the squares applyMove may change for the move from -> to with result r
Touched(from, to, r) ==
    {from, to}
    \cup (IF r.isCastling
          THEN {Pos(from.row, IF r.castlingSide = "kingside" THEN 7 ELSE 0),
                Pos(from.row, IF r.castlingSide = "kingside" THEN 5 ELSE 3)}
          ELSE {})
    \cup (IF r.isEnPassant THEN {VictimSquare(At(Board, from).color, to)} ELSE {})

\* C14: applyMove's newBoard differs from the input board only on `from` (now
\* empty), `to` (now the moved piece: type and colour of the piece that stood
\* on `from`, hasMoved = true), the two rook squares of a castling move and the
\* victim square of an en passant capture (now empty); every other square
\* holds exactly what it held in the input board.
C14_ApplyMoveFrame ==
    \A from \in Occupied : \A to \in AcceptedFrom(from) \cup Reflections(from) :
        LET r == applyMove(gameState, from, to)
            piece == At(Board, from)
        IN  /\ SameExcept(r.newBoard, Board, Touched(from, to, r))
            /\ At(r.newBoard, from) = Null
            /\ At(r.newBoard, to) = Piece(piece.type, piece.color, TRUE)
            /\ r.isEnPassant => At(r.newBoard, VictimSquare(piece.color, to)) = Null
            /\ ~r.isCastling /\ ~r.isEnPassant =>
                  \A s \in Squares \ {from, to} : At(r.newBoard, s) = At(Board, s)

\* black may capture en passant: applyMove changes three squares, the third
\* being neither `from` nor `to`
C14_Witness ==
    /\ CurrentPlayer = "black"
    /\ \E from \in OwnSquares : \E to \in AcceptedFrom(from) :
          LET r == applyMove(gameState, from, to)
          IN  /\ r.isEnPassant
              /\ {s \in Squares : At(r.newBoard, s) # At(Board, s)}
                    = {from, to, Pos(to.row - 1, to.col)}

\* rows advanced towards the far rank by a piece of `color` going from -> to
Forward(color, from, to) == IF color = "white" THEN from.row - to.row ELSE to.row - from.row

\* the pawn rule as the claim states it, for the pawn on `from`
PawnRule(gs, from, to) ==
    LET color == At(gs.board, from).color
        forward == Forward(color, from, to)
        aside == Abs(from.col - to.col)
        between == Pos((from.row + to.row) \div 2, from.col)
    IN  \/ aside = 0 /\ forward = 1 /\ At(gs.board, to) = Null
        \/ /\ aside = 0 /\ forward = 2
           /\ from.row = (IF color = "white" THEN 6 ELSE 1)
           /\ At(gs.board, between) = Null
           /\ At(gs.board, to) = Null
        \/ /\ aside = 1 /\ forward = 1
           /\ At(gs.board, to) # Null
           /\ At(gs.board, to).color = Opponent(color)
        \/ aside = 1 /\ forward = 1 /\ to = gs.enPassantTarget

\* the squares holding a pawn of the side to move
OwnPawns == {s \in OwnSquares : At(Board, s).type = "pawn"}

\* C15: for a pawn of the side to move, isValidMove accepts (from, to) iff,
\* with forward meaning towards row 0 for white and row 7 for black: (a) same
\* column, one row forward, `to` empty; or (b) same column, two rows forward
\* from the start row (6 white, 1 black), the square between and `to` both
\* empty; or (c) one column aside, one row forward, `to` holding an enemy
\* piece; or (d) one column aside, one row forward, `to` the en passant
\* target.  Backward and sideways moves, straight captures and longer steps
\* are rejected.
C15_PawnRule ==
    \A from \in OwnPawns : \A to \in Squares :
        LET forward == Forward(CurrentPlayer, from, to)
            aside == Abs(from.col - to.col)
        IN  /\ isValidMove(gameState, from, to) <=> PawnRule(gameState, from, to)
            /\ forward <= 0 => ~isValidMove(gameState, from, to)
            /\ forward > 2 \/ aside > 1 => ~isValidMove(gameState, from, to)
            /\ aside = 0 /\ At(Board, to) # Null => ~isValidMove(gameState, from, to)

\* a pawn of the side to move stands on its start row with the square in
\* front of it occupied and the one behind that empty, while another pawn has
\* a capture
C15_Witness ==
    /\ \E from \in OwnPawns :
          LET direction == IF CurrentPlayer = "white" THEN -1 ELSE 1
          IN  /\ from.row = (IF CurrentPlayer = "white" THEN 6 ELSE 1)
              /\ Board[from.row + direction][from.col] # Null
              /\ Board[from.row + 2 * direction][from.col] = Null
    /\ \E from \in OwnPawns : \E to \in AcceptedFrom(from) : At(Board, to) # Null

\* the squares strictly between two squares of a row, a column or a diagonal
Between(from, to) ==
    {s \in Squares :
        /\ s # from /\ s # to
        /\ (IF from.row <= to.row THEN from.row <= s.row /\ s.row <= to.row
                                  ELSE to.row <= s.row /\ s.row <= from.row)
        /\ (IF from.col <= to.col THEN from.col <= s.col /\ s.col <= to.col
                                  ELSE to.col <= s.col /\ s.col <= from.col)
        /\ \/ from.row = to.row
           \/ from.col = to.col
           \/ Abs(s.row - from.row) = Abs(s.col - from.col)}

\* the rook rule as the claim states it
RookRule(gs, from, to) ==
    /\ from.row = to.row \/ from.col = to.col
    /\ \A s \in Between(from, to) : At(gs.board, s) = Null
    /\ At(gs.board, to) = Null \/ At(gs.board, to).color # At(gs.board, from).color

\* the squares holding a rook of the side to move
OwnRooks == {s \in OwnSquares : At(Board, s).type = "rook"}

\* C16: for a rook of the side to move and from # to, isValidMove accepts
\* (from, to) iff from and to share a row or a column, every square strictly
\* between them is empty, and `to` does not hold a piece of the rook's colour;
\* from the start position a1 -> a8 is rejected (the pawn on a2 blocks).
C16_RookRule ==
    /\ \A from \in OwnRooks : \A to \in Squares \ {from} :
          isValidMove(gameState, from, to) <=> RookRule(gameState, from, to)
    /\ ~isValidMove(InitialGameState, notationToPosition(<<"a", "1">>),
                    notationToPosition(<<"a", "8">>))

\* a rook of the side to move has a capture at a distance, and a square of
\* its row or column it cannot reach because a piece stands between
C16_Witness ==
    \E from \in OwnRooks :
        /\ \E to \in AcceptedFrom(from) : At(Board, to) # Null /\ Between(from, to) # {}
        /\ \E to \in Squares :
              /\ from.row = to.row \/ from.col = to.col
              /\ At(Board, to) = Null
              /\ ~isValidMove(gameState, from, to)

\* the bishop rule as the claim states it
BishopRule(gs, from, to) ==
    /\ Abs(from.row - to.row) = Abs(from.col - to.col)
    /\ Abs(from.row - to.row) > 0
    /\ \A s \in Between(from, to) : At(gs.board, s) = Null
    /\ At(gs.board, to) = Null \/ At(gs.board, to).color # At(gs.board, from).color

\* the squares holding a bishop of the side to move
OwnBishops == {s \in OwnSquares : At(Board, s).type = "bishop"}

\* the squares the path scan of the bishop move from -> to reads
Inspected(from, to) ==
    LET rowDirection == IF from.row < to.row THEN 1 ELSE -1
        colDirection == IF from.col < to.col THEN 1 ELSE -1
    IN  BishopInspected(Board, from.row + rowDirection, from.col + colDirection,
                        rowDirection, colDirection, to)

\* C17: for a bishop of the side to move, isValidMove accepts (from, to) iff
\* |row delta| = |column delta| > 0, every square strictly between from and to
\* on that diagonal is empty, and `to` does not hold a piece of the bishop's
\* colour; the path scan, which stops when the row or the column reaches the
\* target, reads squares strictly between from and to only, in order from
\* `from`, all of them unless one is occupied: then that one is the last.
C17_BishopRule ==
    \A from \in OwnBishops : \A to \in Squares :
        /\ isValidMove(gameState, from, to) <=> BishopRule(gameState, from, to)
        /\ (Abs(from.row - to.row) = Abs(from.col - to.col) /\ from # to) =>
              Inspected(from, to)
                 = {s \in Between(from, to) :
                       \A q \in Between(from, s) : At(Board, q) = Null}

\* a bishop of the side to move has a capture at a distance, and a square of
\* a diagonal it cannot reach because a piece stands between
C17_Witness ==
    \E from \in OwnBishops :
        /\ \E to \in AcceptedFrom(from) :
              /\ At(Board, to) # Null
              /\ Cardinality(Inspected(from, to)) >= 2
        /\ \E to \in Squares :
              /\ Abs(from.row - to.row) = Abs(from.col - to.col)
              /\ At(Board, to) = Null
              /\ ~isValidMove(gameState, from, to)

\* the place of a square in row-major order
RowMajorIndex(s) == 8 * s.row + s.col

\* C18: getValidMoves(state, position) returns exactly the squares `to` among
\* the 64 for which isValidMove(state, position, to) is true, each once, in
\* row-major order; the list is empty when `position` is empty or holds a
\* piece of the side not to move.
C18_GetValidMoves ==
    \A position \in Squares :
        LET moves == getValidMoves(gameState, position)
        IN  /\ {moves[i] : i \in 1..Len(moves)} = AcceptedFrom(position)
            /\ Len(moves) = Cardinality(AcceptedFrom(position))
            /\ \A i \in 1..(Len(moves) - 1) :
                  RowMajorIndex(moves[i]) < RowMajorIndex(moves[i + 1])
            /\ position \notin OwnSquares => moves = <<>>

\* a piece of the side to move has moves in several rows and several moves in
\* one row, while pieces of the other side are on the board
C18_Witness ==
    /\ \E position \in OwnSquares :
          LET moves == getValidMoves(gameState, position)
          IN  /\ Len(moves) >= 8
              /\ \E i, j \in 1..Len(moves) :
                    moves[i].row = moves[j].row /\ moves[i].col < moves[j].col
              /\ \E i, j \in 1..Len(moves) : moves[i].row < moves[j].row
    /\ Occupied \ OwnSquares # {}

\* C19: from the start position with white to move e2 -> e4 is accepted and
\* applyMove returns enPassantTarget {row 5, col 4}; then with black to move
\* e7 -> e5 is accepted and returns {row 2, col 4}; then with white to move
\* a2 -> a3 is accepted and returns null.
C19_OpenGameScenario ==
    LET e2e4 == Ply("e", "2", "e", "4")
        e7e5 == Ply("e", "7", "e", "5")
        a2a3 == Ply("a", "2", "a", "3")
        played == Played(moveHistory)
    IN  /\ played = <<>> =>
              /\ gameState = InitialGameState
              /\ isValidMove(gameState, e2e4.from, e2e4.to)
              /\ applyMove(gameState, e2e4.from, e2e4.to).enPassantTarget = Pos(5, 4)
        /\ played = <<e2e4>> =>
              /\ CurrentPlayer = "black"
              /\ gameState.enPassantTarget = Pos(5, 4)
              /\ isValidMove(gameState, e7e5.from, e7e5.to)
              /\ applyMove(gameState, e7e5.from, e7e5.to).enPassantTarget = Pos(2, 4)
        /\ played = <<e2e4, e7e5>> =>
              /\ CurrentPlayer = "white"
              /\ gameState.enPassantTarget = Pos(2, 4)
              /\ isValidMove(gameState, a2a3.from, a2a3.to)
              /\ applyMove(gameState, a2a3.from, a2a3.to).enPassantTarget = Null
        /\ played = <<e2e4, e7e5, a2a3>> =>
              /\ CurrentPlayer = "black"
              /\ gameState.enPassantTarget = Null

\* 1.e4 e5 2.a3 has been played
C19_Witness == Played(moveHistory) = LineOpenGame

\* a square reflected across the vertical centre file: column c to 7 - c
MirrorPos(p) == Pos(p.row, 7 - p.col)

\* a piece with its colour swapped
SwapColor(p) == IF p = Null THEN Null ELSE [p EXCEPT !.color = Opponent(@)]

\* a game state reflected across the vertical centre file with the colours of
\* the pieces and of the side to move swapped
Mirror(gs) ==
    [gs EXCEPT !.board = [r \in Rows |-> [c \in Cols |-> SwapColor(gs.board[r][7 - c])]],
               !.currentPlayer = Opponent(@),
               !.enPassantTarget = IF @ = Null THEN Null ELSE MirrorPos(@)]

\* C20 as stated: for every pair of squares isValidMove is invariant under
\* reflecting the board across the vertical centre file (column c to 7 - c
\* for every piece, for from, to and enPassantTarget) combined with swapping
\* the piece colours and the side to move.
C20_MirrorSymmetryAsStated ==
    LET mirrored == Mirror(gameState)
    IN  \A from \in Squares : \A to \in Squares :
           isValidMove(gameState, from, to)
              = isValidMove(mirrored, MirrorPos(from), MirrorPos(to))

\* C20 amended: the invariance under that reflection with swapped colours
\* holds for every pair of squares whose `from` does not hold a pawn and that
\* is not a king's move of two columns along its row; pawn moves (their
\* direction follows the colour) and castling (its columns are fixed) are not
\* invariant.
C20_MirrorSymmetry ==
    LET mirrored == Mirror(gameState)
    IN  \A from \in Squares : \A to \in Squares :
           ( /\ At(Board, from).type # "pawn"
             /\ ~(At(Board, from).type = "king" /\ CastlingShaped(from, to)) )
           => isValidMove(gameState, from, to)
                 = isValidMove(mirrored, MirrorPos(from), MirrorPos(to))

\* a rook or bishop of the side to move captures at a distance and a knight
\* has a move; the reflected moves are accepted in the reflected state, while
\* a pawn's advance is not
C20_Witness ==
    LET mirrored == Mirror(gameState)
    IN  /\ \E from \in OwnSquares : \E to \in AcceptedFrom(from) :
              /\ At(Board, from).type \in {"rook", "bishop"}
              /\ At(Board, to) # Null
              /\ Between(from, to) # {}
              /\ isValidMove(mirrored, MirrorPos(from), MirrorPos(to))
        /\ \E from \in OwnSquares : \E to \in AcceptedFrom(from) :
              /\ At(Board, from).type = "knight"
              /\ isValidMove(mirrored, MirrorPos(from), MirrorPos(to))
        /\ \E from \in OwnPawns : \E to \in AcceptedFrom(from) :
              ~isValidMove(mirrored, MirrorPos(from), MirrorPos(to))

\* the file letters from left to right and the rank digits from 1 to 8
FileLetters == <<"a", "b", "c", "d", "e", "f", "g", "h">>

RankDigits == <<"1", "2", "3", "4", "5", "6", "7", "8">>

\* the 64 algebraic squares a1 .. h8
Notations == {<<FileLetters[f], RankDigits[n]>> : f \in 1..8, n \in 1..8}

\* C21: positionToNotation(notationToPosition(s)) = s for each of the 64
\* squares a1 .. h8, and notationToPosition(positionToNotation(p)) = p for
\* each of the 64 positions with row and col in 0..7; so it is for the squares
\* of every move played.
C21_NotationRoundTrip ==
    /\ \A s \in Notations : positionToNotation(notationToPosition(s)) = s
    /\ \A p \in Squares : notationToPosition(positionToNotation(p)) = p
    /\ Cardinality({positionToNotation(p) : p \in Squares}) = 64
    /\ \A i \in 1..Len(moveHistory) :
          /\ notationToPosition(positionToNotation(moveHistory[i].from)) = moveHistory[i].from
          /\ notationToPosition(positionToNotation(moveHistory[i].to)) = moveHistory[i].to

\* black has castled queenside: the move reads e8 -> c8
C21_Witness ==
    /\ gameState.lastMove # Null
    /\ gameState.lastMove.isCastling
    /\ positionToNotation(gameState.lastMove.from) = <<"e", "8">>
    /\ positionToNotation(gameState.lastMove.to) = <<"c", "8">>

\* C22: notationToPosition maps the file letters a .. h to the columns 0 .. 7
\* and the rank digit r (1 .. 8) to row 8 - r, so "e4" maps to {row 4, col 4},
\* "a8" to {row 0, col 0} and "h1" to {row 7, col 7}; the squares of the moves
\* played, given in notation, are the squares the move records hold.
C22_NotationToPosition ==
    /\ \A f \in 1..8 : \A n \in 1..8 :
          notationToPosition(<<FileLetters[f], RankDigits[n]>>) = Pos(8 - n, f - 1)
    /\ notationToPosition(<<"e", "4">>) = Pos(4, 4)
    /\ notationToPosition(<<"a", "8">>) = Pos(0, 0)
    /\ notationToPosition(<<"h", "1">>) = Pos(7, 7)
    /\ Played(moveHistory) = <<Ply("e", "2", "e", "4")>> =>
          /\ At(Board, Pos(4, 4)) = Piece("pawn", "white", TRUE)
          /\ At(Board, Pos(6, 4)) = Null

\* 1.e4 has been played: the pawn stands on row 4, column 4
C22_Witness ==
    /\ Played(moveHistory) = <<Ply("e", "2", "e", "4")>>
    /\ gameState.lastMove.to = Pos(4, 4)

\* the pieces of `color` on a board, as a set of squares
PiecesOf(board, color) ==
    {s \in Squares : At(board, s) # Null /\ At(board, s).color = color}

\* the standard start position, square by square
IsStandardStart(board) ==
    /\ \A c \in Cols :
          LET type == CASE c \in {0, 7} -> "rook"
                        [] c \in {1, 6} -> "knight"
                        [] c \in {2, 5} -> "bishop"
                        [] c = 3 -> "queen"
                        [] c = 4 -> "king"
          IN  /\ board[0][c] = [type |-> type, color |-> "black", hasMoved |-> FALSE]
              /\ board[1][c] = [type |-> "pawn", color |-> "black", hasMoved |-> FALSE]
              /\ board[6][c] = [type |-> "pawn", color |-> "white", hasMoved |-> FALSE]
              /\ board[7][c] = [type |-> type, color |-> "white", hasMoved |-> FALSE]
    /\ \A r \in 2..5 : \A c \in Cols : board[r][c] = Null
    /\ Cardinality(PiecesOf(board, "white")) + Cardinality(PiecesOf(board, "black")) = 32

\* C23: initializeBoard returns the standard 32-piece start position: row 0
\* holds black rook, knight, bishop, queen, king, bishop, knight, rook in
\* columns 0..7, row 1 eight black pawns, row 6 eight white pawns, row 7 the
\* white back rank in the same column order, rows 2..5 are empty, and every
\* piece has hasMoved = false.  A game with no move played, at construction
\* and after New Game, shows that board.
C23_InitializeBoard ==
    /\ IsStandardStart(initializeBoard)
    /\ moveHistory = <<>> => IsStandardStart(Board)

\* New Game was pressed while a black piece was selected: the board is the
\* one resetGame installed
C23_Witness ==
    /\ moveHistory = <<>>
    /\ selectedSquare # Null
    /\ At(Board, selectedSquare).color = "black"

\* move i of the history captured a king
CapturedKing(i) ==
    /\ moveHistory[i].capturedPiece # Null
    /\ moveHistory[i].capturedPiece.type = "king"

\* C24: winner is non-null exactly when an accepted move reported a captured
\* piece of type king; that move is the last one made, and winner is the
\* colour of the player who made it (the colour of the capturing piece, the
\* opponent of the captured king's colour); in every other reachable state
\* winner is null.
C24_KingCaptureEndsGame ==
    /\ winner # NullString <=> \E i \in 1..Len(moveHistory) : CapturedKing(i)
    /\ \A i \in 1..Len(moveHistory) :
          CapturedKing(i) =>
             /\ i = Len(moveHistory)
             /\ winner = moveHistory[i].piece.color
             /\ winner = Opponent(moveHistory[i].capturedPiece.color)
             /\ CurrentPlayer = Opponent(winner)

\* black has captured the white king
C24_Witness ==
    /\ winner = "black"
    /\ gameState.lastMove.capturedPiece = Piece("king", "white", FALSE)

\* the state resetGame installs
IsNewGame(gs, history, captured, w) ==
    /\ IsStandardStart(gs.board)
    /\ gs.currentPlayer = "white"
    /\ gs.enPassantTarget = Null
    /\ history = <<>>
    /\ captured = [white |-> <<>>, black |-> <<>>]
    /\ w = NullString

\* C25: once winner is non-null, every square click is rejected: board,
\* currentPlayer, enPassantTarget, moveHistory, capturedPieces, winner and the
\* selection stay unchanged in every step, except the step of resetGame, which
\* restores the initial board, white to move, no en passant target, empty
\* history and captures, and winner null.
C25_GameOverFreeze ==
    [][ winner # NullString =>
          /\ selectedSquare' = selectedSquare
          /\ promotionPosition' = promotionPosition
          /\ \/ /\ gameState' = gameState
                /\ moveHistory' = moveHistory
                /\ capturedPieces' = capturedPieces
                /\ winner' = winner
             \/ IsNewGame(gameState', moveHistory', capturedPieces', winner') ]_vars

\* white has captured the king and black has a move the games explored would
\* go on with
C25_Witness ==
    /\ winner = "white"
    /\ \E from \in OwnSquares : \E to \in AcceptedFrom(from) :
          Explored(moveHistory, from, to)

\* the side to move after n moves of a game
SideAfter(n) == IF n % 2 = 0 THEN "white" ELSE "black"

\* C26: currentPlayer is white in the initial state and flips on every
\* accepted move and on nothing else: a step that records no move (a rejected
\* click, a selection change, a dismissed promotion dialog) leaves it
\* unchanged, a step that records a move made it with a piece of the side to
\* move and passes the turn, and New Game returns it to white.  Hence the
\* colours of consecutive moveHistory entries alternate starting with white.
C26_TurnAlternation ==
    /\ [](/\ CurrentPlayer = SideAfter(Len(moveHistory))
          /\ \A i \in 1..Len(moveHistory) : moveHistory[i].piece.color = SideAfter(i - 1))
    /\ [][ \/ /\ moveHistory' = moveHistory
              /\ gameState'.currentPlayer = CurrentPlayer
           \/ /\ Len(moveHistory') = Len(moveHistory) + 1
              /\ moveHistory'[Len(moveHistory')].piece.color = CurrentPlayer
              /\ gameState'.currentPlayer = Opponent(CurrentPlayer)
           \/ /\ moveHistory' = <<>>
              /\ gameState'.currentPlayer = "white" ]_vars

\* three moves have been made and black, to move, has selected a piece
C26_Witness ==
    /\ Len(moveHistory) = 3
    /\ CurrentPlayer = "black"
    /\ selectedSquare # Null
    /\ At(Board, selectedSquare).color = "black"

\* C27: the move-application effect of ChessGame agrees with applyMove.  Every
\* step that commits a non-promotion move from (state, from, to) leaves
\* ChessGame holding exactly the board applyMove returns as newBoard for the
\* same state, from and to: all 64 squares, hasMoved flags, the relocated
\* castling rook and the removed en passant pawn included.
C27_EffectAgreesWithApplyMove ==
    [][ (/\ gameState'.lastMove # Null
         /\ gameState'.lastMove # gameState.lastMove
         /\ ~gameState'.lastMove.isPromotion)
        => /\ isValidMove(gameState, gameState'.lastMove.from, gameState'.lastMove.to)
           /\ gameState'.board =
                 applyMove(gameState, gameState'.lastMove.from, gameState'.lastMove.to).newBoard
      ]_vars

\* white has just castled queenside in the UI: king on c1, rook on d1
C27_Witness ==
    /\ gameState.lastMove # Null
    /\ gameState.lastMove.isCastling
    /\ gameState.lastMove.castlingSide = "queenside"
    /\ gameState.lastMove.piece.color = "white"
    /\ At(Board, Pos(7, 2)) = Piece("king", "white", TRUE)
    /\ At(Board, Pos(7, 3)) = Piece("rook", "white", TRUE)
    /\ At(Board, Pos(7, 0)) = Null

\* the entries of colour `color` in both lists of capturedPieces
CapturedOf(captured, color) ==
    Len(SelectSeq(captured.white, LAMBDA p : p.color = color))
       + Len(SelectSeq(captured.black, LAMBDA p : p.color = color))

\* C28: piece conservation.  In every state reached through the UI, for each
\* colour the pieces of that colour on the board plus that colour's entries in
\* capturedPieces number 16.  A step that commits a move leaves the mover's
\* pieces as many as they were and takes at most one piece of the opponent's
\* off the board; any other step changes no count, except New Game, which
\* restores 16 a side.
C28_PieceConservation ==
    /\ [](\A color \in PieceColor :
             Cardinality(PiecesOf(Board, color)) + CapturedOf(capturedPieces, color) = 16)
    /\ [][ \/ /\ gameState'.lastMove # Null
              /\ gameState'.lastMove # gameState.lastMove
              /\ LET mover == gameState'.lastMove.piece.color
                     own == Cardinality(PiecesOf(Board, mover))
                     other == Cardinality(PiecesOf(Board, Opponent(mover)))
                 IN  /\ mover = CurrentPlayer
                     /\ Cardinality(PiecesOf(gameState'.board, mover)) = own
                     /\ Cardinality(PiecesOf(gameState'.board, Opponent(mover)))
                           \in {other, other - 1}
           \/ /\ gameState'.lastMove = gameState.lastMove
              /\ \A color \in PieceColor :
                    Cardinality(PiecesOf(gameState'.board, color))
                       = Cardinality(PiecesOf(Board, color))
           \/ /\ gameState'.lastMove = Null
              /\ \A color \in PieceColor :
                    Cardinality(PiecesOf(gameState'.board, color)) = 16 ]_vars

\* each side has lost a pawn, black's taken en passant: 15 pieces a side remain
C28_Witness ==
    /\ capturedPieces.black = <<Piece("pawn", "black", TRUE)>>
    /\ capturedPieces.white = <<Piece("pawn", "white", TRUE)>>
    /\ moveHistory[5].isEnPassant
    /\ Cardinality(PiecesOf(Board, "white")) = 15
    /\ Cardinality(PiecesOf(Board, "black")) = 15

\* the piece stands where initializeBoard placed a piece of its type and colour
OnStartSquare(board, s) ==
    /\ At(initializeBoard, s) # Null
    /\ At(initializeBoard, s).type = At(board, s).type
    /\ At(initializeBoard, s).color = At(board, s).color

\* C29: in every position reached from the start position through accepted
\* moves, a piece whose hasMoved is false stands on a square where
\* initializeBoard placed a piece of the same type and colour; and every
\* castling move isValidMove accepts starts with the king on column 4 of its
\* colour's home row and has the unmoved partner rook on the corner square of
\* that row on the side the king moves to.
C29_UnmovedOnStartSquare ==
    /\ \A s \in Squares :
          (At(Board, s) # Null /\ ~At(Board, s).hasMoved) => OnStartSquare(Board, s)
    /\ \A from \in OwnSquares :
          At(Board, from).type = "king" =>
             \A to \in AcceptedFrom(from) :
                CastlingShaped(from, to) =>
                   /\ from = Pos(HomeRow(CurrentPlayer), 4)
                   /\ At(Board, Pos(from.row, IF to.col > from.col THEN 7 ELSE 0))
                         = Piece("rook", CurrentPlayer, FALSE)

\* white may castle queenside: king and a1 rook unmoved on their start squares,
\* a white bishop, moved, away from its own
C29_Witness ==
    /\ CurrentPlayer = "white"
    /\ At(Board, Pos(7, 4)) = Piece("king", "white", FALSE)
    /\ isValidMove(gameState, Pos(7, 4), Pos(7, 2))
    /\ \E s \in Squares : At(Board, s) = Piece("bishop", "white", TRUE)

\* C30: whenever enPassantTarget is non-null, the side that just moved (the
\* opponent of currentPlayer) made the last move with a pawn; the target lies
\* on row 5 if that side is white and on row 2 if it is black; the target
\* square is empty; and the square one row beyond it in the same column (row 4
\* resp. row 3) is where that move landed and holds a pawn of the side that
\* just moved.
C30_EnPassantTargetShape ==
    gameState.enPassantTarget # Null =>
       LET target == gameState.enPassantTarget
           mover == Opponent(CurrentPlayer)
           beyond == Pos(IF mover = "white" THEN 4 ELSE 3, target.col)
       IN  /\ target \in Squares
           /\ target.row = (IF mover = "white" THEN 5 ELSE 2)
           /\ At(Board, target) = Null
           /\ At(Board, beyond) = Piece("pawn", mover, TRUE)
           /\ gameState.lastMove # Null
           /\ gameState.lastMove.piece = Piece("pawn", mover, FALSE)
           /\ gameState.lastMove.to = beyond

\* black has just played f7-f5 past a white pawn on e5: the target is f6
C30_Witness ==
    /\ gameState.enPassantTarget = Pos(2, 5)
    /\ CurrentPlayer = "white"
    /\ At(Board, Pos(3, 5)) = Piece("pawn", "black", TRUE)
    /\ At(Board, Pos(3, 4)) = Piece("pawn", "white", TRUE)

\* C31: for every move isValidMove accepts in a position reached from the
\* start position, applyMove reports isEnPassant = true only when the moving
\* piece is a pawn stepping one row forward and one column sideways onto the
\* enPassantTarget square, which is empty; the piece applyMove then removes
\* and reports is a pawn of the opposing colour standing beside the origin
\* (never null, never a piece of the mover's colour); and isEnPassant is never
\* reported together with isPromotion or isCastling.
C31_EnPassantClassification ==
    \A from \in OwnSquares : \A to \in AcceptedFrom(from) :
        LET r == applyMove(gameState, from, to)
            piece == At(Board, from)
            victim == VictimSquare(piece.color, to)
        IN  r.isEnPassant =>
               /\ piece.type = "pawn"
               /\ Abs(from.col - to.col) = 1
               /\ Forward(piece.color, from, to) = 1
               /\ to = gameState.enPassantTarget
               /\ At(Board, to) = Null
               /\ victim \in Squares
               /\ victim.row = from.row
               /\ At(Board, victim) = Piece("pawn", Opponent(piece.color), TRUE)
               /\ r.capturedPiece = At(Board, victim)
               /\ At(r.newBoard, victim) = Null
               /\ ~r.isPromotion
               /\ ~r.isCastling

\* white may capture en passant towards the h-file while other pawn moves
\* and moves of other pieces are accepted too
C31_Witness ==
    /\ CurrentPlayer = "white"
    /\ \E from \in OwnSquares : \E to \in AcceptedFrom(from) :
          /\ applyMove(gameState, from, to).isEnPassant
          /\ to.col = from.col + 1
    /\ \E from \in OwnSquares : \E to \in AcceptedFrom(from) :
          /\ At(Board, from).type = "pawn"
          /\ ~applyMove(gameState, from, to).isEnPassant

\* every piece value
AnyPiece == {Piece(t, c, h) : t \in PieceType, c \in PieceColor, h \in BOOLEAN}

\* the position with `content` on square p and `color` to move
WithSquare(gs, p, content, color) ==
    [gs EXCEPT !.board = Put(gs.board, p.row, p.col, content), !.currentPlayer = color]

\* the squares of a list of positions
SquaresOf(list) == {list[i] : i \in 1..Len(list)}

\* C32: isValidMove(state, p, p) is false for every square p, whatever stands
\* on p and whoever is to move: an empty or foreign origin is rejected at
\* once and an own piece is its own same-colour destination.  That holds for a
\* king too, whose isValidKingMove alone accepts the zero displacement.  Hence
\* getValidMoves(state, p) never lists p.
C32_NullMoveRejected ==
    /\ \A p \in Squares : \A color \in PieceColor : \A h \in BOOLEAN :
          LET gs == WithSquare(gameState, p, Piece("king", color, h), color)
          IN  /\ isValidKingMove(gs, p, p)
              /\ ~isValidMove(gs, p, p)
              /\ p \notin SquaresOf(getValidMoves(gs, p))
    /\ \A p \in Squares : \A color \in PieceColor :
          /\ \A content \in AnyPiece \cup {Null} :
                ~isValidMove(WithSquare(gameState, p, content, color), p, p)
          /\ p \notin SquaresOf(getValidMoves([gameState EXCEPT !.currentPlayer = color], p))

\* the white king, to move with the f1 bishop gone, has accepted moves, its own
\* square not among them
C32_Witness ==
    /\ CurrentPlayer = "white"
    /\ At(Board, Pos(7, 4)) = Piece("king", "white", FALSE)
    /\ Pos(7, 5) \in SquaresOf(getValidMoves(gameState, Pos(7, 4)))
    /\ isValidKingMove(gameState, Pos(7, 4), Pos(7, 4))
    /\ Pos(7, 4) \notin SquaresOf(getValidMoves(gameState, Pos(7, 4)))

\* the pieces that scan a path
Sliders == {"bishop", "rook", "queen"}

\* what stands on `from` in the position, and each sliding piece of the side to move
OnOrigin(from) == {At(Board, from)} \cup {Piece(t, CurrentPlayer, TRUE) : t \in Sliders}

\* C33: isValidMove returns, for every position and every in-range from and
\* to, and so does getValidMoves, which calls it for the 64 destinations.
\* Every rook and bishop path scan that is started has from # to, steps
\* towards the target and stops there or at an occupied square before it after
\* at most 6 iterations (12 for a queen, whose two scans run in turn); no
\* scan runs off the board, where a horizontal scan would never return and a
\* vertical or diagonal one would throw.  The value returned is isValidMove's.
C33_ScansTerminate ==
    \A from \in Squares : \A content \in OnOrigin(from) : \A to \in Squares :
        LET gs == WithSquare(gameState, from, content, CurrentPlayer)
            run == isValidMoveRun(gs, from, to)
        IN  /\ run.ends = "returns"
            /\ run.scans # {} => from # to
            /\ run.steps <= 6 * Cardinality(run.scans)
            /\ run.value = isValidMove(gs, from, to)

\* a rook's move along a rank from one edge file to the other is accepted
\* after a scan of six iterations over the six empty squares between
C33_Witness ==
    \E from \in OwnSquares : \E to \in AcceptedFrom(from) :
       /\ At(Board, from).type = "rook"
       /\ Abs(from.col - to.col) = 7
       /\ isValidMoveRun(gameState, from, to) = Returns(TRUE, 6, {"rook"})

\* a square reflected across the horizontal centre line
FlipPos(p) == Pos(7 - p.row, p.col)

\* a game state reflected across the horizontal centre line (row r to 7 - r,
\* same column) with the colours of the pieces and of the side to move
\* swapped; type and hasMoved of each piece are kept
Flip(gs) ==
    [gs EXCEPT !.board = [r \in Rows |-> [c \in Cols |-> SwapColor(gs.board[7 - r][c])]],
               !.currentPlayer = Opponent(@),
               !.enPassantTarget = IF @ = Null THEN Null ELSE FlipPos(@)]

\* C34: isValidMove is invariant under the row reflection with colour swap:
\* for every position, either side to move, and every pair of squares,
\* isValidMove(s, from, to) = isValidMove(s', from', to') where s' has every
\* piece of s on row 7 - r of the same column with the opposite colour and the
\* same type and hasMoved, the opposite side to move and the row-mirrored
\* enPassantTarget, and from', to' are the row-mirrored squares.
C34_RowReflectionSymmetry ==
    \A color \in PieceColor :
       LET s == [gameState EXCEPT !.currentPlayer = color]
           flipped == Flip(s)
       IN  \A from \in Squares : \A to \in Squares :
              isValidMove(s, from, to) = isValidMove(flipped, FlipPos(from), FlipPos(to))

\* white may capture en passant and may advance a pawn two rows from row 6;
\* in the reflected position black may do both, from row 1
C34_Witness ==
    LET flipped == Flip(gameState)
    IN  /\ CurrentPlayer = "white"
        /\ \E from \in OwnPawns : \E to \in AcceptedFrom(from) :
              /\ applyMove(gameState, from, to).isEnPassant
              /\ isValidMove(flipped, FlipPos(from), FlipPos(to))
              /\ applyMove(flipped, FlipPos(from), FlipPos(to)).isEnPassant
        /\ \E from \in OwnPawns : \E to \in AcceptedFrom(from) :
              /\ from.row = 6 /\ to.row = 4
              /\ At(flipped.board, FlipPos(from)) = Piece("pawn", "black", FALSE)
              /\ isValidMove(flipped, FlipPos(from), FlipPos(to))

\* C35: a cancelled promotion makes no move.  The click that opens the
\* promotion dialog, the clicks on a piece type inside it and its dismissal
\* call neither onMove nor onPromotion: every step taken with the dialog open
\* before or after it, other than Confirm, leaves board, currentPlayer,
\* enPassantTarget, lastMove, moveHistory, capturedPieces and winner as they
\* were, the pawn still on its origin; and the dismissal clears the pending move.
C35_CancelledPromotion ==
    [][ /\ ((promotionPosition # Null \/ promotionPosition' # Null)
               /\ ~handlePromotionConfirm)
            => /\ UNCHANGED <<gameState, moveHistory, lastMove, capturedPieces, winner>>
               /\ selectedSquare' # Null
               /\ At(gameState'.board, selectedSquare').type = "pawn"
               /\ At(gameState'.board, selectedSquare').color = gameState'.currentPlayer
        /\ dismissPromotion
            => /\ UNCHANGED <<gameState, moveHistory, lastMove, capturedPieces, winner>>
               /\ promotionPosition' = Null
               /\ pendingPromotion' = Null
      ]_vars

\* the dialog was opened for the pawn on b7, knight was clicked in it and it
\* was dismissed: eight moves made, the pawn still selected on b7, white to move
C35_Witness ==
    /\ promotionPosition = Null
    /\ pendingPromotion = Null
    /\ promotionSelectValue = "knight"
    /\ Len(moveHistory) = 8
    /\ selectedSquare = Pos(1, 1)
    /\ At(Board, Pos(1, 1)) = Piece("pawn", "white", TRUE)
    /\ CurrentPlayer = "white"
    /\ capturedPieces.black = <<Piece("pawn", "black", FALSE)>>

\* C36: the board-only applyMove(board, from, to) of lib/chess-utils.ts does
\* not mutate the caller's board: after the call every square of the input
\* board holds a piece with the same type, colour and hasMoved as before the
\* call (or is still empty).
C36_BoardOnlyApplyMoveKeepsInput ==
    LET heap == HeapOf(gameState)
    IN  \A from \in Squares : \A to \in AcceptedFrom(from) \cup Reflections(from) :
           LET after == chessUtilsApplyMoveInMemory(heap, InputBoard, from, to)
           IN  ReadBoard(after.heap, InputBoard) = Board

\* what stands on `from`, and a pawn, a queen and an unmoved king of the side to move
IndexedFrom(from) ==
    {At(Board, from), Piece("pawn", CurrentPlayer, FALSE),
     Piece("queen", CurrentPlayer, TRUE), Piece("king", CurrentPlayer, FALSE)}

\* C37: no out-of-range access.  For every position and every from and to
\* with row and col in 0..7, every index pair isValidMove reads lies in 0..7 x
\* 0..7: the square before a pawn on its start row, the squares a scan passes,
\* the castling corner and the squares between king and rook.  For every move
\* isValidMove accepts in a position reached from the start position, every
\* square applyMove reads or writes lies in range too, the en passant victim
\* row to.row + 1 or to.row - 1 and the castling rook columns 0, 3, 5, 7
\* included.
C37_NoOutOfRangeAccess ==
    /\ \A from \in Squares : \A content \in IndexedFrom(from) : \A to \in Squares :
          isValidMoveReads(WithSquare(gameState, from, content, CurrentPlayer), from, to)
             \subseteq Squares
    /\ \A from \in OwnSquares : \A to \in AcceptedFrom(from) :
          applyMoveAccesses(gameState, from, to) \subseteq Squares

\* black may capture en passant onto row 5, the victim on row 4, and a pawn's
\* two-square advance reads three squares: origin, the square between, target
C37_Witness ==
    /\ CurrentPlayer = "black"
    /\ \E from \in OwnSquares : \E to \in AcceptedFrom(from) :
          /\ applyMove(gameState, from, to).isEnPassant
          /\ Pos(to.row - 1, to.col) \in applyMoveAccesses(gameState, from, to)
          /\ to.row = 5
    /\ \E from \in OwnSquares : \E to \in AcceptedFrom(from) :
          /\ At(Board, from).type = "pawn"
          /\ Cardinality(isValidMoveReads(gameState, from, to)) = 3

====
